---- MODULE Spec2Model ----
(***************************************************************************)
(* Model of the lizard toolkit: the GPM L1C swath reader                   *)
(* (lizard/readers/gpm_l1c.py), the flight catalogue and segment accessors *)
(* (lizard/ac3airlib.py), the polarization conversion                      *)
(* (lizard/rt/polarization.py), the MiRAC-A and satellite track readers    *)
(* (lizard/readers/mirac_a.py, sat_tracks.py), the readers of all HALO     *)
(* flights (lizard/readers/hamp.py, mira.py), the bit flags                *)
(* (lizard/bitflags.py) and the PAMTRA profile and surface                 *)
(* (lizard/pamtools/profile.py, pamtra_tools.py).                          *)
(*                                                                         *)
(* The library is a collection of synchronous functions.  A state of the   *)
(* model is the last call made (op, args), what it returned or raised      *)
(* (ret), and the two pieces of process-wide data the functions read: the  *)
(* flight catalogue META and the directory of granule files PATH_SAT;      *)
(* for the readers of campaign data also the intake catalogue CAT, the     *)
(* campaign directory DATA_OBS, the files that are open (handles) and the  *)
(* position of a call that is followed statement by statement (pc).        *)
(* numpy arrays are functions over 0..n-1, as numpy indexes them.          *)
(***************************************************************************)
EXTENDS Integers, Sequences, FiniteSets, TLC

VARIABLES op, args, ret, META, PATH_SAT, CAT, DATA_OBS, handles, pc

vars == <<op, args, ret, META, PATH_SAT, CAT, DATA_OBS, handles, pc>>

(* ------------------------------ bounds -------------------------------- *)
\* largest number of scans (along track, x) of a modelled swath
NScan == 2
\* largest number of footprints per scan (across track, y) of a modelled swath
NPix == 2

(* --------------------------- array helpers ---------------------------- *)
\* the assignment v = value; body(v): the value is computed once
Let(value, Body(_)) == CHOOSE r \in {Body(v) : v \in {value}} : TRUE

Range0(n) == 0 .. (n - 1)

\* np.abs
Abs(v) == IF v < 0 THEN 0 - v ELSE v

\* np.arange(0, n)
Range0Array(n) == [k \in Range0(n) |-> k]

\* shape of a two-dimensional array: (rows, columns)
Shape2(a) == <<Cardinality(DOMAIN a), Cardinality(DOMAIN a[0])>>

\* np.any(a, axis=1) of a 2-d boolean array: one value per row
AnyAxis1(a) == [i \in DOMAIN a |-> \E j \in DOMAIN a[i] : a[i][j]]

\* np.any(a, axis=0) of a 2-d boolean array: one value per column
AnyAxis0(a) == [i \in DOMAIN a[0] |-> \E j \in DOMAIN a : a[j][i]]

\* a.T of a 3-d array: the axes are reversed
Transpose3(a) ==
    [j \in DOMAIN a[0][0] |-> [i \in DOMAIN a[0] |-> [c \in DOMAIN a |-> a[c][i][j]]]]

\* the indices at which a boolean index is True, ascending
RECURSIVE TrueIdxFrom(_, _)
TrueIdxFrom(ix, k) ==
    IF k \notin DOMAIN ix THEN << >>
    ELSE (IF ix[k] THEN <<k>> ELSE << >>) \o TrueIdxFrom(ix, k + 1)

TrueIdx(ix) == TrueIdxFrom(ix, 0)

\* a[ix] with a boolean index ix over the first axis: the selected rows, in order
BoolIndex(a, ix) ==
    LET t == TrueIdx(ix) IN [k \in Range0(Len(t)) |-> a[t[k + 1]]]

(* ---------------------------- geolocation ----------------------------- *)
\* sample footprint positions (lon, lat) in degrees
Points == {<<-45, 88>>, <<45, 88>>, <<45, 89>>}

\* sample regions [lon0, lon1, lat0, lat1]
ROIs ==
    { <<-180, 180, -90, 90>>, <<-45, 45, 88, 89>>, <<45, 90, 88, 90>>,
      <<-44, 45, 88, 90>>, <<0, 90, 89, 90>>, <<-180, 180, 89, 89>> }

\* sample centre points (lon, lat) and maximum distances (projected units)
Centers == {<<45, 89>>, <<-45, 89>>}
Distances == {0, 1, 2}

\* the geolocation arrays of a swath: a position per (scan, footprint)
GeoArrays ==
    UNION { [Range0(n) -> [Range0(m) -> Points]] : n \in 1 .. NScan, m \in 1 .. NPix }

Longitude(geo) == [i \in DOMAIN geo |-> [j \in DOMAIN geo[i] |-> geo[i][j][1]]]
Latitude(geo) == [i \in DOMAIN geo |-> [j \in DOMAIN geo[i] |-> geo[i][j][2]]]

\* north polar stereographic projection with central meridian 45 W, on the
\* four meridians 135 W, 45 W, 45 E, 135 E: the distance from the pole grows
\* with the colatitude (one unit per degree), the meridian gives the direction
project_point(lon, lat) ==
    LET r == 90 - lat IN
    CASE lon = -45 -> <<0, 0 - r>>
      [] lon = 45 -> <<r, 0>>
      [] lon = 135 -> <<0, r>>
      [] lon = -135 -> <<0 - r, 0>>

\* project_crs on arrays: the tuple (x, y) of projected coordinate arrays
project_crs(lon, lat) ==
    << [i \in DOMAIN lon |-> [j \in DOMAIN lon[i] |-> project_point(lon[i][j], lat[i][j])[1]]],
       [i \in DOMAIN lon |-> [j \in DOMAIN lon[i] |-> project_point(lon[i][j], lat[i][j])[2]]] >>

\* np.array of a tuple: a sequence becomes an array over 0..n-1
NpArray(t) == [c \in Range0(Len(t)) |-> t[c + 1]]

\* a scan is kept only if all of its footprints are inside the region
roi_index_all(lat, lon, roi) ==
    [i \in DOMAIN lat |-> \A j \in DOMAIN lat[i] :
        (lon[i][j] >= roi[1]) /\ (lon[i][j] < roi[2])
        /\ (lat[i][j] >= roi[3]) /\ (lat[i][j] < roi[4])]

roi_index(lat, lon, roi) ==
    LET lon0 == roi[1]
        lon1 == roi[2]
        lat0 == roi[3]
        lat1 == roi[4]
    IN  AnyAxis1([i \in DOMAIN lat |-> [j \in DOMAIN lat[i] |->
            (lon[i][j] >= lon0) /\ (lon[i][j] < lon1)
            /\ (lat[i][j] >= lat0) /\ (lat[i][j] < lat1)]])

\* np.linalg.norm(v, axis=2) <= d, element by element (d is compared with a
\* Euclidean norm, so the comparison is made on the squares when d >= 0)
NormLeq(v, d) ==
    [a \in DOMAIN v |-> [b \in DOMAIN v[a] |->
        d >= 0 /\ v[a][b][0] * v[a][b][0] + v[a][b][1] * v[a][b][1] <= d * d]]

\* the reduction runs over the scans instead of the footprints
distance_index_axis1(lat, lon, center_lat, center_lon, max_distance) ==
    LET sat_points == Transpose3(NpArray(project_crs(lon, lat)))
        center_point == NpArray(project_point(center_lon, center_lat))
        diff == [a \in DOMAIN sat_points |-> [b \in DOMAIN sat_points[a] |->
                    [c \in DOMAIN sat_points[a][b] |->
                        sat_points[a][b][c] - center_point[c]]]]
    IN  AnyAxis1(NormLeq(diff, max_distance))

distance_index(lat, lon, center_lat, center_lon, max_distance) ==
    LET sat_points == Transpose3(NpArray(project_crs(lon, lat)))
        center_point == NpArray(project_point(center_lon, center_lat))
        diff == [a \in DOMAIN sat_points |-> [b \in DOMAIN sat_points[a] |->
                    [c \in DOMAIN sat_points[a][b] |->
                        sat_points[a][b][c] - center_point[c]]]]
    IN  AnyAxis0(NormLeq(diff, max_distance))

(* ------------------------- instrument tables -------------------------- *)
FILENAME_SAT ==
    (<<"ATMS", "SNPP">> :> "NPP.ATMS") @@ (<<"ATMS", "NOAA-21">> :> "NOAA21.ATMS")
    @@ (<<"ATMS", "NOAA-20">> :> "NOAA20.ATMS") @@ (<<"MHS", "NOAA-19">> :> "NOAA19.MHS")
    @@ (<<"MHS", "NOAA-18">> :> "NOAA18.MHS") @@ (<<"MHS", "Metop-C">> :> "METOPC.MHS")
    @@ (<<"MHS", "Metop-B">> :> "METOPB.MHS") @@ (<<"MHS", "Metop-A">> :> "METOPA.MHS")
    @@ (<<"SSMIS", "DMSP-F18">> :> "F18.SSMIS") @@ (<<"SSMIS", "DMSP-F17">> :> "F17.SSMIS")
    @@ (<<"SSMIS", "DMSP-F16">> :> "F16.SSMIS") @@ (<<"AMSR2", "GCOM-W">> :> "GCOMW1.AMSR2")

\* channels within each instrument/swath, in the order of the Tc array
SWATH_CHANNELS ==
    [MHS |-> [S1 |-> <<1, 2, 3, 4, 5>>],
     ATMS |-> [S1 |-> <<1>>, S2 |-> <<2>>, S3 |-> <<16>>,
               S4 |-> <<17, 18, 19, 20, 21, 22>>],
     SSMIS |-> [S1 |-> <<13, 12, 14>>, S2 |-> <<16, 15>>,
                S3 |-> <<8, 11, 10, 9>>, S4 |-> <<17, 18>>],
     AMSR2 |-> [S1 |-> <<5, 6>>, S2 |-> <<7, 8>>, S3 |-> <<9, 10>>,
                S4 |-> <<11, 12>>, S5 |-> <<13, 14>>, S6 |-> <<13, 14>>]]

CHANNELS_SORTED ==
    [ATMS |-> <<16, 17, 18, 19, 20, 21, 22>>,
     MHS |-> <<1, 2, 3, 4, 5>>,
     SSMIS |-> <<17, 18, 8, 9, 10, 11>>,
     AMSR2 |-> <<13, 14>>]

\* the second swath of SSMIS is a low-frequency swath
SWATHS_wrong ==
    [MHS |-> <<"S1">>,
     ATMS |-> <<"S3", "S4">>,
     SSMIS |-> <<"S4", "S2">>,
     AMSR2 |-> <<"S5", "S6">>]

SWATHS ==
    [MHS |-> <<"S1">>,
     ATMS |-> <<"S3", "S4">>,
     SSMIS |-> <<"S4", "S3">>,
     AMSR2 |-> <<"S5", "S6">>]

Instruments == DOMAIN SWATHS

\* the satellite modelled for each instrument
SatelliteOf == [ATMS |-> "SNPP", MHS |-> "NOAA-18", SSMIS |-> "DMSP-F18", AMSR2 |-> "GCOM-W"]

(* ---------------------------- granule files --------------------------- *)
\* width of the granule number in a file name
GranuleWidth == 6

\* str(n): the decimal digits of a natural number
RECURSIVE Str(_)
Str(n) == IF n < 10 THEN <<n>> ELSE Str(n \div 10) \o <<n % 10>>

\* s.zfill(width): zeros are put in front up to the width
RECURSIVE ZFill(_, _)
ZFill(s, width) == IF Len(s) >= width THEN s ELSE ZFill(<<0>> \o s, width)

\* footprint positions of the swaths that are read as a whole granule
ReadPoints == {<<-45, 88>>, <<45, 89>>}

\* the footprints of a scan of such a swath: all at one position, or the
\* first at one position and the others at the other
ScanRows(m) ==
    { [j \in Range0(m) |-> p] : p \in ReadPoints }
    \cup { [j \in Range0(m) |-> IF j = 0 THEN <<-45, 88>> ELSE <<45, 89>>] }

ReadGeoArrays ==
    UNION { [Range0(n) -> ScanRows(m)] : n \in 1 .. NScan, m \in 1 .. NPix }

\* the footprints of the other swaths of a file lie at other positions than
\* those of the first W-band swath
OtherPoint(p) == IF p = <<-45, 88>> THEN <<45, 89>> ELSE <<-45, 88>>

Displace(geo) == [i \in DOMAIN geo |-> [j \in DOMAIN geo[i] |-> OtherPoint(geo[i][j])]]

\* time is counted in scan periods; a day has DayLen of them
DayLen == 4

\* a granule file: the fields of its name (satellite, start date, start and
\* end time of day, granule number, version) and the geolocation of its
\* first W-band swath; the scans follow each other from the start time on
GranuleFile(instrument, granule, major, minor, geo) ==
    [sat |-> FILENAME_SAT[<<instrument, SatelliteOf[instrument]>>],
     instrument |-> instrument,
     date |-> 0, stime |-> 0, etime |-> (Cardinality(DOMAIN geo) - 1) % DayLen,
     granule |-> granule, major |-> major, minor |-> minor, geo |-> geo]

\* f.attrs["FileHeader"]: names the file it belongs to
FileHeader(file) == <<file.sat, file.granule, file.major, file.minor>>

\* h5py.File(file)[swath]: the datasets of a swath.  Latitude and Longitude
\* are the geolocation; the values of the other datasets are identified by
\* the file, the swath and the index they are stored at
H5Swath(file, swath) ==
    LET geo == IF swath = SWATHS[file.instrument][1] THEN file.geo
               ELSE Displace(file.geo)
        hdr == FileHeader(file)
    IN  [Latitude |-> Latitude(geo),
         Longitude |-> Longitude(geo),
         ScanTime |-> [i \in DOMAIN geo |-> file.date * DayLen + file.stime + i],
         Quality |-> [i \in DOMAIN geo |-> [j \in DOMAIN geo[i] |->
                        <<"Quality", hdr, swath, i, j>>]],
         Tc |-> [i \in DOMAIN geo |-> [j \in DOMAIN geo[i] |->
                    [c \in Range0(Len(SWATH_CHANNELS[file.instrument][swath])) |->
                        <<"Tc", hdr, swath, i, j, c>>]]]]

\* the last match of the listing is taken
FirstMatch_last(matches) ==
    IF Len(matches) = 0 THEN [error |-> "IndexError"]
    ELSE [file |-> matches[Len(matches)]]

\* glob(...)[0]
FirstMatch(matches) ==
    IF Len(matches) = 0 THEN [error |-> "IndexError"]
    ELSE [file |-> matches[1]]

\* glob of "1C.<sat>.XCAL*.<granule>.V07*.HDF5": the files of the directory
\* whose name fits, in the order of the listing
Glob(dir, sat, granule) ==
    SelectSeq(dir, LAMBDA f : f.sat = sat /\ f.granule = granule /\ f.major = "V07")

(* ------------------------------ datasets ------------------------------ *)
NaN == <<"NaN">>

\* a keyword argument that is not passed has its default, None
IsNone(kw, name) == name \notin DOMAIN kw

IsError(r) == "error" \in DOMAIN r

\* the values of an array, as a set
Values(a) == {a[k] : k \in DOMAIN a}

\* the position of a label in a coordinate
PosOf(coord, label) == CHOOSE k \in DOMAIN coord : coord[k] = label

\* the elements of a finite set of integers, ascending
RECURSIVE SortSet(_)
SortSet(S) ==
    IF S = {} THEN << >>
    ELSE LET m == CHOOSE v \in S : \A w \in S : v <= w
         IN  <<m>> \o SortSet(S \ {m})

\* the union of two indexes (pandas Index.union): equal indexes are kept as
\* they are, otherwise the labels of both, sorted
IndexUnion(a, b) == IF a = b THEN a ELSE NpArray(SortSet(Values(a) \cup Values(b)))

\* np.concatenate along the first axis
Concat0(a, b) ==
    LET na == Cardinality(DOMAIN a)
        nb == Cardinality(DOMAIN b)
    IN  [k \in Range0(na + nb) |-> IF k < na THEN a[k] ELSE b[k - na]]

\* the region filter of read_gpm_l1c_swath and in_roi
RegionIndex(lat, lon, kw) ==
    IF ~IsNone(kw, "roi")
    THEN roi_index(lat, lon, kw.roi)
    ELSE distance_index(lat, lon, kw.center_lat, kw.center_lon, kw.max_distance)

\* the x coordinate counts the selected scans instead of naming their index
ScanCoord_position(nscan, ix) == Range0Array(Len(TrueIdx(ix)))

\* np.arange(0, nscan)[ix]
ScanCoord(nscan, ix) == BoolIndex(Range0Array(nscan), ix)

\* the footprints of the selection are counted instead of those of the granule
FootprintId_position(x, y, dims) ==
    [k \in DOMAIN x |-> [j \in DOMAIN y |-> k * dims[2] + y[j]]]

\* np.ravel_multi_index((x, y), dims) for every pair of the stacked (x, y)
FootprintId(x, y, dims) ==
    [k \in DOMAIN x |-> [j \in DOMAIN y |-> x[k] * dims[2] + y[j]]]

read_gpm_l1c_swath(dir, kw) ==
    LET sg == IF IsNone(kw, "sg") /\ IsNone(kw, "st") THEN kw.swath ELSE kw.sg
        st == IF IsNone(kw, "sg") /\ IsNone(kw, "st") THEN kw.swath ELSE kw.st
        granule == ZFill(Str(kw.granule), GranuleWidth)
        found == FirstMatch(Glob(dir, FILENAME_SAT[<<kw.instrument, kw.satellite>>], granule))
    IN  IF IsError(found) THEN found
        ELSE
        Let(H5Swath(found.file, sg), LAMBDA g :
        Let(H5Swath(found.file, st), LAMBDA t :
        Let(RegionIndex(g.Latitude, g.Longitude, kw), LAMBDA ix :
        LET dims_swath == Shape2(g.Latitude)
            x_ix == ScanCoord(dims_swath[1], ix)
            y_ix == Range0Array(dims_swath[2])
            ds == [scan_time |-> BoolIndex(g.ScanTime, ix),
                   lat |-> BoolIndex(g.Latitude, ix),
                   lon |-> BoolIndex(g.Longitude, ix),
                   quality |-> BoolIndex(g.Quality, ix),
                   tb |-> BoolIndex(t.Tc, ix),
                   x |-> x_ix,
                   y |-> y_ix,
                   channel |-> NpArray(SWATH_CHANNELS[kw.instrument][st]),
                   attrs |-> FileHeader(found.file)]
        IN  IF kw.add_index
            THEN [footprint_id |-> FootprintId(x_ix, y_ix, dims_swath)] @@ ds
            ELSE ds)))

\* a dataset has the labels of x, y and channel (the latter two where given)
Has1(ds, xl) == xl \in Values(ds.x)
Has2(ds, xl, yl) == Has1(ds, xl) /\ yl \in Values(ds.y)
Has3(ds, xl, yl, cl) == Has2(ds, xl, yl) /\ cl \in Values(ds.channel)

\* the value of a variable of a dataset at labels of x, y and channel
At1(ds, var, xl) == ds[var][PosOf(ds.x, xl)]
At2(ds, var, xl, yl) == ds[var][PosOf(ds.x, xl)][PosOf(ds.y, yl)]
At3(ds, var, xl, yl, cl) ==
    ds[var][PosOf(ds.x, xl)][PosOf(ds.y, yl)][PosOf(ds.channel, cl)]

\* ds1.combine_first(ds2): the indexes are joined (outer); where ds1 has a
\* value it is kept, the gaps are filled with the values of ds2 (the stored
\* values of a granule are never NaN), and NaN is left where neither has one
combine_first(ds1, ds2) ==
    LET x == IndexUnion(ds1.x, ds2.x)
        y == IndexUnion(ds1.y, ds2.y)
        channel == IndexUnion(ds1.channel, ds2.channel)
        V1(var) == [k \in DOMAIN x |->
                        IF Has1(ds1, x[k]) THEN At1(ds1, var, x[k])
                        ELSE IF Has1(ds2, x[k]) THEN At1(ds2, var, x[k]) ELSE NaN]
        V2(var) == [k \in DOMAIN x |-> [j \in DOMAIN y |->
                        IF Has2(ds1, x[k], y[j]) THEN At2(ds1, var, x[k], y[j])
                        ELSE IF Has2(ds2, x[k], y[j]) THEN At2(ds2, var, x[k], y[j])
                        ELSE NaN]]
        V3(var) == [k \in DOMAIN x |-> [j \in DOMAIN y |-> [c \in DOMAIN channel |->
                        IF Has3(ds1, x[k], y[j], channel[c])
                        THEN At3(ds1, var, x[k], y[j], channel[c])
                        ELSE IF Has3(ds2, x[k], y[j], channel[c])
                        THEN At3(ds2, var, x[k], y[j], channel[c])
                        ELSE NaN]]]
        ds == [scan_time |-> V1("scan_time"), lat |-> V2("lat"), lon |-> V2("lon"),
               quality |-> V2("quality"), tb |-> V3("tb"),
               x |-> x, y |-> y, channel |-> channel, attrs |-> ds1.attrs]
    IN  IF "footprint_id" \in DOMAIN ds1
        THEN [footprint_id |-> V2("footprint_id")] @@ ds
        ELSE ds

\* -a of an integer array
Negate(a) == [k \in DOMAIN a |-> 0 - a[k]]

Negate2(a) == [k \in DOMAIN a |-> Negate(a[k])]

\* xr.concat([ds1, ds2], dim="x") of two datasets with the same y and channel
concat_x(ds1, ds2) ==
    LET V(var) == Concat0(ds1[var], ds2[var])
    IN  [scan_time |-> V("scan_time"), lat |-> V("lat"), lon |-> V("lon"),
         quality |-> V("quality"), tb |-> V("tb"), footprint_id |-> V("footprint_id"),
         x |-> V("x"), y |-> ds1.y, channel |-> ds1.channel, attrs |-> ds1.attrs]

\* ds.sel(channel=labels): the channels in the order of the labels; a label
\* the dataset does not have is a KeyError
sel_channel(ds, labels) ==
    IF \E c \in DOMAIN labels : labels[c] \notin Values(ds.channel)
    THEN [error |-> "KeyError", key |-> "channel"]
    ELSE [ds EXCEPT
            !.channel = labels,
            !.tb = [k \in DOMAIN ds.tb |-> [j \in DOMAIN ds.tb[k] |->
                      [c \in DOMAIN labels |-> ds.tb[k][j][PosOf(ds.channel, labels[c])]]]]]

\* the channels are brought into the order of CHANNELS_SORTED
SortChannels(ds, instrument) ==
    IF IsError(ds) THEN ds ELSE sel_channel(ds, NpArray(CHANNELS_SORTED[instrument]))

\* the second swath is read with its own geolocation
read_gpm_l1c_own_geolocation(dir, kw) ==
    LET s == SWATHS[kw.instrument]
    IN  IF kw.instrument = "MHS"
        THEN Let(read_gpm_l1c_swath(dir, [swath |-> s[1]] @@ kw),
                 LAMBDA ds : SortChannels(ds, kw.instrument))
        ELSE
        Let(read_gpm_l1c_swath(dir, [sg |-> s[1], st |-> s[1]] @@ kw), LAMBDA ds1 :
        Let(read_gpm_l1c_swath(dir, [sg |-> s[2], st |-> s[2]] @@ kw), LAMBDA ds2 :
        Let(IF IsError(ds1) THEN ds1 ELSE combine_first(ds1, ds2),
            LAMBDA ds : SortChannels(ds, kw.instrument))))

read_gpm_l1c(dir, kw) ==
    LET s == SWATHS[kw.instrument]
    IN  CASE kw.instrument = "MHS" ->
                Let(read_gpm_l1c_swath(dir, [swath |-> s[1]] @@ kw),
                    LAMBDA ds : SortChannels(ds, kw.instrument))
          [] kw.instrument \in {"ATMS", "SSMIS"} ->
                Let(read_gpm_l1c_swath(dir, [sg |-> s[1], st |-> s[1]] @@ kw), LAMBDA ds1 :
                Let(read_gpm_l1c_swath(dir, [sg |-> s[1], st |-> s[2]] @@ kw), LAMBDA ds2 :
                Let(IF IsError(ds1) THEN ds1
                    ELSE IF IsError(ds2) THEN ds2
                    ELSE combine_first(ds1, ds2),
                    LAMBDA ds : SortChannels(ds, kw.instrument))))
          [] kw.instrument = "AMSR2" ->
                Let(read_gpm_l1c_swath(dir, [swath |-> s[1]] @@ kw), LAMBDA ds1 :
                Let(read_gpm_l1c_swath(dir, [swath |-> s[2]] @@ kw), LAMBDA ds2 :
                Let(IF IsError(ds1) THEN ds1
                    ELSE IF IsError(ds2) THEN ds2
                    ELSE IF "footprint_id" \notin DOMAIN ds2
                    THEN [error |-> "KeyError", key |-> "footprint_id"]
                    ELSE concat_x(ds1,
                            [ds2 EXCEPT !.x = Negate(ds2.x),
                                        !.footprint_id = Negate2(ds2.footprint_id)]),
                    LAMBDA ds : SortChannels(ds, kw.instrument))))

(* ------------------------------ catalogue ----------------------------- *)
\* META is a dictionary of dictionaries, mission -> platform -> flight_id ->
\* flight.  A dictionary is the sequence of its (key, value) pairs in the
\* order of insertion; a flight id "<mission>_<platform>_<name>" is the
\* tuple of its three parts.
NoMeta == << >>
NoFiles == << >>

\* the data a group of functions does not touch: the intake catalogue CAT,
\* the campaign directory DATA_OBS, and no file open and no call under way
Elsewhere ==
    /\ CAT = {}
    /\ DATA_OBS = {}
    /\ handles = {}
    /\ pc = [at |-> "idle"]

\* list(d): the keys of a dictionary, in order
Keys(d) == [k \in DOMAIN d |-> d[k][1]]

\* the longest catalogue of flights of a platform
MaxFlights == 2

FlightName(n) == IF n = 0 THEN "RF00" ELSE IF n = 1 THEN "RF01" ELSE IF n = 2 THEN "RF02"
                 ELSE IF n = 3 THEN "RF03" ELSE "RF04"

\* the flights RF01 .. RF<n> of a platform, each with its record
FlightsUpTo(mission, platform, n) ==
    [k \in 1 .. n |-> << <<mission, platform, FlightName(k)>>, [date |-> k] >>]

\* the flights of a platform with the given names, in the order of the names
RECURSIVE FlightsNamed(_, _, _)
FlightsNamed(mission, platform, names) ==
    IF names = {} THEN << >>
    ELSE LET n == CHOOSE v \in names : \A w \in names : v <= w
         IN  << << <<mission, platform, FlightName(n)>>, [date |-> n] >> >>
             \o FlightsNamed(mission, platform, names \ {n})

Catalogue(n1, n2, halo) ==
    << << "ACLOUD", << << "P5", FlightsUpTo("ACLOUD", "P5", n1) >> >> >>,
       << "HALO-AC3", << << "P5", FlightsUpTo("HALO-AC3", "P5", n2) >>,
                         << "HALO", FlightsNamed("HALO-AC3", "HALO", halo) >> >> >> >>

\* a string argument, or a list of strings
AsList(arg) == IF "str" \in DOMAIN arg THEN <<arg.str>> ELSE arg.list

\* list.remove(v) guarded by "v in list": the first occurrence is removed
RECURSIVE RemoveFirst(_, _)
RemoveFirst(list, v) ==
    IF list = << >> THEN << >>
    ELSE IF Head(list) = v THEN Tail(list)
    ELSE <<Head(list)>> \o RemoveFirst(Tail(list), v)

\* the comprehension of get_all_flights, one loop per operator
RECURSIVE FlightLoop(_, _)
FlightLoop(flights, keep) ==
    IF flights = << >> THEN << >>
    ELSE (IF keep THEN <<Head(flights)[1]>> ELSE << >>) \o FlightLoop(Tail(flights), keep)

RECURSIVE PlatformLoop(_, _, _)
PlatformLoop(platforms, in_mission, platform) ==
    IF platforms = << >> THEN << >>
    ELSE FlightLoop(Head(platforms)[2],
                    in_mission /\ Head(platforms)[1] \in Values(platform))
         \o PlatformLoop(Tail(platforms), in_mission, platform)

RECURSIVE MissionLoop(_, _, _)
MissionLoop(missions, mission, platform) ==
    IF missions = << >> THEN << >>
    ELSE PlatformLoop(Head(missions)[2], Head(missions)[1] \in Values(mission), platform)
         \o MissionLoop(Tail(missions), mission, platform)

\* the transfer flight RF01 stays in the list
get_all_flights_keep_transfer(meta, mission, platform) ==
    RemoveFirst(MissionLoop(meta, AsList(mission), AsList(platform)),
                <<"HALO-AC3", "HALO", "RF00">>)

get_all_flights(meta, mission, platform) ==
    RemoveFirst(
        RemoveFirst(MissionLoop(meta, AsList(mission), AsList(platform)),
                    <<"HALO-AC3", "HALO", "RF01">>),
        <<"HALO-AC3", "HALO", "RF00">>)

\* the mission and platform arguments of a call
NameArgs(names) ==
    { [str |-> n] : n \in names }
    \cup { [list |-> l] : l \in {<< >>} \cup {<<n>> : n \in names}
                                \cup {<<n, m>> : n \in names, m \in names} }

InitFlights ==
    /\ Elsewhere
    /\ op = "init"
    /\ args = << >>
    /\ ret = << >>
    /\ PATH_SAT = NoFiles
    /\ \E n1 \in 0 .. MaxFlights, n2 \in 0 .. MaxFlights, halo \in SUBSET (0 .. 2) :
            META = Catalogue(n1, n2, halo)

CallGetAllFlights ==
    /\ op = "init"
    /\ \E mission \in NameArgs({"ACLOUD", "HALO-AC3"}), platform \in NameArgs({"P5", "HALO"}) :
        /\ op' = "get_all_flights"
        /\ args' = [mission |-> mission, platform |-> platform]
        /\ ret' = get_all_flights(META, mission, platform)
        /\ UNCHANGED <<META, PATH_SAT, CAT, DATA_OBS, handles, pc>>

NextFlights == CallGetAllFlights

SpecFlights == InitFlights /\ [][NextFlights]_vars

(* ---------------------------- polarization ---------------------------- *)
\* the observation height at which a satellite's tb is taken
SatelliteHeight == 833000

\* the weights cos^2 and sin^2 of the scan angle add up to WeightScale
WeightScale == 4

\* cos(scan_ang) ** 2 for an altitude and an incidence angle, in units of
\* 1 / WeightScale
Cos2(alt, incidence_angle) == IF incidence_angle = 0 THEN WeightScale ELSE 3

vh2qv(v, h, incidence_angle, alt) ==
    v * Cos2(alt, incidence_angle) + h * (WeightScale - Cos2(alt, incidence_angle))

vh2qh(v, h, incidence_angle, alt) ==
    h * Cos2(alt, incidence_angle) + v * (WeightScale - Cos2(alt, incidence_angle))

\* a polarization that is not known is passed through
pamtra2instrument_pass(ds_pam, polarization, incidence_angle, altitude, is_satellite) ==
    LET angle == Abs(incidence_angle)
        da_tb == IF is_satellite THEN ds_pam[SatelliteHeight][angle]
                 ELSE ds_pam[altitude][angle]
    IN  IF polarization \in {"V", "H"}
        THEN [tb |-> da_tb[polarization] * WeightScale]
        ELSE IF polarization \in {"QV", "QH"}
        THEN [tb |-> IF polarization = "QV"
                     THEN vh2qv(da_tb["V"], da_tb["H"], angle, altitude)
                     ELSE vh2qh(da_tb["V"], da_tb["H"], angle, altitude)]
        ELSE [tb |-> da_tb]

\* tb is kept in units of 1 / WeightScale K
pamtra2instrument(ds_pam, polarization, incidence_angle, altitude, is_satellite) ==
    LET angle == Abs(incidence_angle)
        da_tb == IF is_satellite THEN ds_pam[SatelliteHeight][angle]
                 ELSE ds_pam[altitude][angle]
    IN  IF polarization \in {"V", "H"}
        THEN [tb |-> da_tb[polarization] * WeightScale]
        ELSE IF polarization \in {"QV", "QH"}
        THEN [tb |-> IF polarization = "QV"
                     THEN vh2qv(da_tb["V"], da_tb["H"], angle, altitude)
                     ELSE vh2qh(da_tb["V"], da_tb["H"], angle, altitude)]
        ELSE [error |-> "TypeError"]

\* simulated tb of a PAMTRA run: per observation height, angle and polarization
Heights == {3000, SatelliteHeight}
Angles == {0, 1}
TbValues == {150, 250}

PamtraRun(tv, th) ==
    [height \in Heights |-> [angle \in Angles |->
        [V |-> tv + angle + (IF height = SatelliteHeight THEN 20 ELSE 0),
         H |-> th + angle + (IF height = SatelliteHeight THEN 20 ELSE 0)]]]

Polarizations == {"V", "H", "QV", "QH", "RC", "v", ""}

InitPol ==
    /\ Elsewhere
    /\ op = "init"
    /\ args = << >>
    /\ ret = << >>
    /\ META = NoMeta
    /\ PATH_SAT = NoFiles

CallPamtra2Instrument ==
    /\ op = "init"
    /\ \E tv \in TbValues, th \in TbValues, polarization \in Polarizations,
          incidence_angle \in {-1, 0, 1}, altitude \in Heights, is_satellite \in BOOLEAN :
        /\ op' = "pamtra2instrument"
        /\ args' = [ds_pam |-> PamtraRun(tv, th), polarization |-> polarization,
                    incidence_angle |-> incidence_angle, altitude |-> altitude,
                    is_satellite |-> is_satellite]
        /\ ret' = pamtra2instrument(PamtraRun(tv, th), polarization, incidence_angle,
                                    altitude, is_satellite)
        /\ UNCHANGED <<META, PATH_SAT, CAT, DATA_OBS, handles, pc>>

NextPol == CallPamtra2Instrument

SpecPol == InitPol /\ [][NextPol]_vars

(* ----------------------- reading a granule file ----------------------- *)
\* granule numbers of the modelled directory: the one that is read, another one
GranuleRead == 12
GranuleOther == 345

\* what the directory holds of the granule that is read, per instrument:
\* one file, two versions of it in either order of the listing, or none
Layouts == {"one", "two", "two_reversed", "none"}

InstrumentFiles(instrument, geo, layout) ==
    LET g == ZFill(Str(GranuleRead), GranuleWidth)
        other == GranuleFile(instrument, ZFill(Str(GranuleOther), GranuleWidth), "V07", "A", geo)
        old == GranuleFile(instrument, g, "V05", "A", geo)
        a == GranuleFile(instrument, g, "V07", "A", geo)
        b == GranuleFile(instrument, g, "V07", "B", Displace(geo))
    IN  CASE layout = "one" -> <<other, old, a>>
          [] layout = "two" -> <<other, a, b>>
          [] layout = "two_reversed" -> <<b, other, a>>
          [] layout = "none" -> <<other, old>>

\* the instrument whose granules a directory holds
StoredInstrument(dir) == dir[1].instrument

\* the region arguments of a call: a box, or a centre and a distance
ReadRegions ==
    { [roi |-> <<-180, 180, -90, 90>>],
      [roi |-> <<-45, 45, 88, 89>>],
      [roi |-> <<0, 90, 89, 90>>],
      [center_lat |-> 89, center_lon |-> -45, max_distance |-> 1] }

\* the swath arguments of read_gpm_l1c_swath: one swath, or the geolocation
\* of the first swath with the brightness temperatures of another
SwathArgs(instrument) ==
    { [swath |-> SWATHS[instrument][k]] : k \in DOMAIN SWATHS[instrument] }
    \cup { [sg |-> SWATHS[instrument][1], st |-> SWATHS[instrument][k]] :
        k \in DOMAIN SWATHS[instrument] \ {1} }

InitRead ==
    /\ Elsewhere
    /\ op = "init"
    /\ args = << >>
    /\ ret = << >>
    /\ META = NoMeta
    /\ \E instrument \in Instruments, geo \in ReadGeoArrays, layout \in Layouts :
            PATH_SAT = InstrumentFiles(instrument, geo, layout)

CallReadSwath ==
    /\ op = "init"
    /\ \E instrument \in {StoredInstrument(PATH_SAT)}, region \in ReadRegions :
       \E sw \in SwathArgs(instrument) :
        LET kw == [instrument |-> instrument, satellite |-> SatelliteOf[instrument],
                   granule |-> GranuleRead, add_index |-> TRUE] @@ region @@ sw
        IN  /\ op' = "read_gpm_l1c_swath"
            /\ args' = kw
            /\ ret' = read_gpm_l1c_swath(PATH_SAT, kw)
            /\ UNCHANGED <<META, PATH_SAT, CAT, DATA_OBS, handles, pc>>

CallRead ==
    /\ op = "init"
    /\ \E instrument \in {StoredInstrument(PATH_SAT)}, region \in ReadRegions,
          add_index \in BOOLEAN :
        LET kw == [instrument |-> instrument, satellite |-> SatelliteOf[instrument],
                   granule |-> GranuleRead, add_index |-> add_index] @@ region
        IN  /\ op' = "read_gpm_l1c"
            /\ args' = kw
            /\ ret' = read_gpm_l1c(PATH_SAT, kw)
            /\ UNCHANGED <<META, PATH_SAT, CAT, DATA_OBS, handles, pc>>

NextRead == CallReadSwath \/ CallRead

SpecRead == InitRead /\ [][NextRead]_vars

(* ----------------------- granules of a time window -------------------- *)
\* np.abs(scan_time - time) <= time_offset, per scan
time_index(scan_time, time, time_offset) ==
    [i \in DOMAIN scan_time |-> Abs(scan_time[i] - time) <= time_offset]

\* the start time written in a file name; file names of one satellite sort
\* by it
NameStart(f) == f.date * DayLen + f.stime

\* the end time read from a file name: the start date with the end time of
\* day, a day later when that lies before the start
NameEnd(f) ==
    LET end_time == f.date * DayLen + f.etime
    IN  IF end_time - NameStart(f) < 0 THEN end_time + DayLen ELSE end_time

\* sorted(...) of file names of one satellite
RECURSIVE SortFiles(_)
SortFiles(S) ==
    IF S = {} THEN << >>
    ELSE LET m == CHOOSE f \in S : \A h \in S : NameStart(f) <= NameStart(h)
         IN  <<m>> \o SortFiles(S \ {m})

\* the files of a satellite in the directory
SatFiles(dir, kw) ==
    {dir[k] : k \in {l \in DOMAIN dir :
        dir[l].sat = FILENAME_SAT[<<kw.instrument, kw.satellite>>]}}

get_files(dir, kw) ==
    IF IsNone(kw, "date") /\ (IsNone(kw, "time") \/ IsNone(kw, "time_offset"))
    THEN [error |-> "AssertionError"]
    ELSE IF IsNone(kw, "time") /\ IsNone(kw, "time_offset")
    THEN [files |-> SortFiles({f \in SatFiles(dir, kw) : f.date = kw.date})]
    ELSE [files |-> SortFiles({f \in SatFiles(dir, kw) :
            \/ Abs(NameStart(f) - kw.time) <= kw.time_offset
            \/ Abs(NameEnd(f) - kw.time) < kw.time_offset})]

\* a file has a scan that passes the spatial and, if asked for, the temporal
\* filter
ScanInRoi(f, kw) ==
    LET s0 == SWATHS[kw.instrument][1]
        ix == RegionIndex(H5Swath(f, s0).Latitude, H5Swath(f, s0).Longitude, kw)
        ix_t == time_index(H5Swath(f, s0).ScanTime, kw.time, kw.time_offset)
    IN  IF ~IsNone(kw, "time")
        THEN \E i \in DOMAIN ix : ix[i] /\ ix_t[i]
        ELSE \E i \in DOMAIN ix : ix[i]

\* the granule numbers (file.split(".")[-3]) of the files with such a scan
RECURSIVE GranulesInRoi(_, _)
GranulesInRoi(files, kw) ==
    IF files = << >> THEN << >>
    ELSE (IF ScanInRoi(Head(files), kw) THEN <<Head(files).granule>> ELSE << >>)
         \o GranulesInRoi(Tail(files), kw)

in_roi(dir, kw) ==
    LET files == get_files(dir, kw)
    IN  IF IsError(files) THEN files
        ELSE [granules |-> GranulesInRoi(files.files, kw)]

\* the dictionary of get_granules: one entry per (satellite, instrument)
get_granules(dir, ins_sat, kw) ==
    LET one(k) == in_roi(dir, [satellite |-> ins_sat[k][1],
                               instrument |-> ins_sat[k][2]] @@ kw)
    IN  IF \E k \in DOMAIN ins_sat : IsError(one(k))
        THEN one(CHOOSE k \in DOMAIN ins_sat :
                    IsError(one(k)) /\ \A l \in 1 .. (k - 1) : ~IsError(one(l)))
        ELSE [granules_dct |->
                [key \in {<<ins_sat[k][1], "_", ins_sat[k][2]>> : k \in DOMAIN ins_sat} |->
                    one(CHOOSE k \in DOMAIN ins_sat :
                            /\ key = <<ins_sat[k][1], "_", ins_sat[k][2]>>
                            /\ \A l \in DOMAIN ins_sat :
                                key = <<ins_sat[l][1], "_", ins_sat[l][2]>> => l <= k).granules]]

\* number of scans of a modelled orbit and the latest start of an orbit
OrbitScans == 3
MaxStart == 5

\* the geolocation of an orbit: one footprint per scan
OrbitGeoArrays == [Range0(OrbitScans) -> [Range0(1) -> ReadPoints]]

\* the file of an orbit that starts at an absolute time
OrbitFile(instrument, number, start, geo) ==
    [GranuleFile(instrument, ZFill(Str(number), GranuleWidth), "V07", "A", geo)
        EXCEPT !.date = start \div DayLen,
               !.stime = start % DayLen,
               !.etime = (start + Cardinality(DOMAIN geo) - 1) % DayLen]

\* the stored orbits: one of another satellite, one orbit over the region at
\* the start of the first day, and one with any start and geolocation
OrbitDirectory(start, geo) ==
    << OrbitFile("ATMS", 7, 1, [i \in Range0(OrbitScans) |-> [j \in Range0(1) |-> <<-45, 88>>]]),
       OrbitFile("MHS", 51812, start, geo),
       OrbitFile("MHS", 51800, 0, [i \in Range0(OrbitScans) |-> [j \in Range0(1) |-> <<-45, 88>>]]) >>

\* the time windows of a call: a date, or a time and a time offset
Offsets == {0, 1}

TimeArgs ==
    { [date |-> d] : d \in 0 .. (MaxStart \div DayLen) }
    \cup { [time |-> t, time_offset |-> o] : t \in 0 .. (MaxStart + OrbitScans), o \in Offsets }

GranuleRegions ==
    { [roi |-> <<-45, 45, 88, 89>>],
      [center_lat |-> 89, center_lon |-> -45, max_distance |-> 1] }

InsSats == { << <<"NOAA-18", "MHS">> >>, << <<"NOAA-18", "MHS">>, <<"SNPP", "ATMS">> >> }

InitGranules ==
    /\ Elsewhere
    /\ op = "init"
    /\ args = << >>
    /\ ret = << >>
    /\ META = NoMeta
    /\ \E start \in 0 .. MaxStart, geo \in OrbitGeoArrays :
            PATH_SAT = OrbitDirectory(start, geo)

CallInRoi ==
    /\ op = "init"
    /\ \E region \in GranuleRegions, window \in TimeArgs :
        LET kw == [instrument |-> "MHS", satellite |-> "NOAA-18"] @@ region @@ window
        IN  /\ op' = "in_roi"
            /\ args' = kw
            /\ ret' = in_roi(PATH_SAT, kw)
            /\ UNCHANGED <<META, PATH_SAT, CAT, DATA_OBS, handles, pc>>

CallGetGranules ==
    /\ op = "init"
    /\ \E ins_sat \in InsSats, region \in GranuleRegions, window \in TimeArgs :
        /\ op' = "get_granules"
        /\ args' = [ins_sat |-> ins_sat] @@ region @@ window
        /\ ret' = get_granules(PATH_SAT, ins_sat, region @@ window)
        /\ UNCHANGED <<META, PATH_SAT, CAT, DATA_OBS, handles, pc>>

NextGranules == CallInRoi \/ CallGetGranules

SpecGranules == InitGranules /\ [][NextGranules]_vars

(* ------------------------- the index functions ------------------------ *)
InitIndex ==
    /\ Elsewhere
    /\ op = "init"
    /\ args = << >>
    /\ ret = << >>
    /\ META = NoMeta
    /\ PATH_SAT = NoFiles

CallRoiIndex ==
    /\ op = "init"
    /\ \E geo \in GeoArrays, roi \in ROIs :
        /\ op' = "roi_index"
        /\ args' = [lat |-> Latitude(geo), lon |-> Longitude(geo), roi |-> roi]
        /\ ret' = roi_index(Latitude(geo), Longitude(geo), roi)
        /\ UNCHANGED <<META, PATH_SAT, CAT, DATA_OBS, handles, pc>>

CallDistanceIndex ==
    /\ op = "init"
    /\ \E geo \in GeoArrays, c \in Centers, d \in Distances :
        /\ op' = "distance_index"
        /\ args' = [lat |-> Latitude(geo), lon |-> Longitude(geo),
                    center_lat |-> c[2], center_lon |-> c[1], max_distance |-> d]
        /\ ret' = distance_index(Latitude(geo), Longitude(geo), c[2], c[1], d)
        /\ UNCHANGED <<META, PATH_SAT, CAT, DATA_OBS, handles, pc>>

NextIndex == CallRoiIndex \/ CallDistanceIndex

SpecIndex == InitIndex /\ [][NextIndex]_vars

\* the footprint at (lon, lat) lies in the half-open box [lon0, lon1) x [lat0, lat1)
InBox(lon, lat, roi) ==
    roi[1] <= lon /\ lon < roi[2] /\ roi[3] <= lat /\ lat < roi[4]

\* the scans of a geolocation array that have a footprint satisfying P
ScansWith(lat, P(_, _)) ==
    {i \in DOMAIN lat : \E j \in DOMAIN lat[i] : P(i, j)}

\* C1: roi_index returns one boolean per scan, and the boolean of a scan is
\* true exactly when at least one footprint of the scan has
\* lon0 <= lon < lon1 and lat0 <= lat < lat1 (any footprint, not all).
C1_RoiIndexAny ==
    op = "roi_index" =>
        LET In(i, j) == InBox(args.lon[i][j], args.lat[i][j], args.roi)
        IN  /\ DOMAIN ret = Range0(Shape2(args.lat)[1])
            /\ \A i \in DOMAIN ret : ret[i] \in BOOLEAN
            /\ {i \in DOMAIN ret : ret[i]} = ScansWith(args.lat, In)

\* a scan that is only partly inside the region is selected whole
C1_Witness ==
    /\ op = "roi_index"
    /\ Shape2(args.lat)[2] = 2
    /\ \E i \in DOMAIN ret :
        /\ ret[i]
        /\ \E j \in DOMAIN args.lat[i] :
             ~InBox(args.lon[i][j], args.lat[i][j], args.roi)

\* squared Euclidean distance of two points of the projected plane
SqDist(p, q) == (p[1] - q[1]) * (p[1] - q[1]) + (p[2] - q[2]) * (p[2] - q[2])

\* C2: distance_index returns one boolean per scan (not per footprint), true
\* exactly when at least one footprint of the scan lies within max_distance
\* (inclusive) of the centre, both projected to the polar-stereographic plane.
C2_DistanceIndexAny ==
    op = "distance_index" =>
        LET centre == project_point(args.center_lon, args.center_lat)
            Near(i, j) ==
                SqDist(project_point(args.lon[i][j], args.lat[i][j]), centre)
                    <= args.max_distance * args.max_distance
        IN  /\ DOMAIN ret = Range0(Shape2(args.lat)[1])
            /\ \A i \in DOMAIN ret : ret[i] \in BOOLEAN
            /\ {i \in DOMAIN ret : ret[i]} = ScansWith(args.lat, Near)

\* a swath with fewer scans than footprints per scan, whose only scan is
\* selected by a footprint at exactly max_distance although another
\* footprint of the scan is farther away
C2_Witness ==
    /\ op = "distance_index"
    /\ Shape2(args.lat) = <<1, 2>>
    /\ args.max_distance = 1
    /\ args.center_lon = 45 /\ args.center_lat = 89
    /\ args.lon[0][0] = 45 /\ args.lat[0][0] = 88
    /\ args.lon[0][1] = -45
    /\ ret[0]

\* the files of the directory that the glob pattern of a call matches
Matching(dir, kw) ==
    {k \in DOMAIN dir :
        /\ dir[k].sat = FILENAME_SAT[<<kw.instrument, kw.satellite>>]
        /\ dir[k].granule = ZFill(Str(kw.granule), GranuleWidth)
        /\ dir[k].major = "V07"}

\* the file a dataset was read from, by its header
SourceFile(dir, ds) == dir[CHOOSE k \in DOMAIN dir : FileHeader(dir[k]) = ds.attrs]

\* the swath a call takes the geolocation (sg) and the tb (st) from
GeoSwath(kw) == IF "swath" \in DOMAIN kw THEN kw.swath ELSE kw.sg
TbSwath(kw) == IF "swath" \in DOMAIN kw THEN kw.swath ELSE kw.st

\* the scans of a swath the region of a call selects: those with a footprint
\* in the box, or within max_distance of the centre in the projected plane
Selected(g, kw) ==
    LET In(i, j) == InBox(g.Longitude[i][j], g.Latitude[i][j], kw.roi)
        Near(i, j) ==
            SqDist(project_point(g.Longitude[i][j], g.Latitude[i][j]),
                   project_point(kw.center_lon, kw.center_lat))
                <= kw.max_distance * kw.max_distance
    IN  IF "roi" \in DOMAIN kw THEN ScansWith(g.Latitude, In)
        ELSE ScansWith(g.Latitude, Near)

\* an array over 0..n-1 whose values ascend strictly
Ascending(a) == \A k, l \in DOMAIN a : k < l => a[k] < a[l]

\* C3: read_gpm_l1c_swath returns exactly the scans the region filter
\* selects, in along-track order, each with all of its footprints; x is the
\* scan index in the granule, and tb, lat, lon and quality are the file's
\* values at that index.  A region containing every footprint returns every
\* scan.
C3_SwathScans ==
    (op = "read_gpm_l1c_swath" /\ ~IsError(ret)) =>
        LET f == SourceFile(PATH_SAT, ret)
            g == H5Swath(f, GeoSwath(args))
            t == H5Swath(f, TbSwath(args))
        IN  /\ DOMAIN ret.x = Range0(Cardinality(Selected(g, args)))
            /\ Values(ret.x) = Selected(g, args)
            /\ Ascending(ret.x)
            /\ ret.y = Range0Array(Shape2(g.Latitude)[2])
            /\ \A k \in DOMAIN ret.x :
                /\ ret.lat[k] = g.Latitude[ret.x[k]]
                /\ ret.lon[k] = g.Longitude[ret.x[k]]
                /\ ret.quality[k] = g.Quality[ret.x[k]]
                /\ ret.tb[k] = t.Tc[ret.x[k]]
            /\ ("roi" \in DOMAIN args /\ args.roi = <<-180, 180, -90, 90>>)
                    => ret.x = Range0Array(Shape2(g.Latitude)[1])

\* the second of two scans is returned alone and keeps a footprint that is
\* outside the region
C3_Witness ==
    /\ op = "read_gpm_l1c_swath" /\ ~IsError(ret)
    /\ "roi" \in DOMAIN args
    /\ DOMAIN ret.x = {0} /\ ret.x[0] = 1
    /\ \E j \in DOMAIN ret.y : ~InBox(ret.lon[0][j], ret.lat[0][j], args.roi)

\* C9: read_gpm_l1c_swath resolves the call to a file by glob; with several
\* matches the first one of the listing is read and no error is raised, with
\* no match the call ends in an error and returns no dataset.
C9_GlobFirstMatch ==
    op = "read_gpm_l1c_swath" =>
        LET m == Matching(PATH_SAT, args)
        IN  /\ m = {} => ret = [error |-> "IndexError"]
            /\ m # {} =>
                /\ ~IsError(ret)
                /\ ret.attrs = FileHeader(PATH_SAT[CHOOSE k \in m : \A l \in m : k <= l])

\* two files match and the one listed first, the later version, is read
C9_Witness ==
    /\ op = "read_gpm_l1c_swath" /\ ~IsError(ret)
    /\ Cardinality(Matching(PATH_SAT, args)) = 2
    /\ ret.attrs[4] = "B"

\* no file matches and the call has raised
C9_WitnessNone ==
    /\ op = "read_gpm_l1c_swath" /\ IsError(ret)
    /\ Matching(PATH_SAT, args) = {}
    /\ PATH_SAT # << >>

\* the swath of SWATHS[instrument] that provides a channel
ProvidingSwaths(instrument, c) ==
    {SWATHS[instrument][k] : k \in {l \in DOMAIN SWATHS[instrument] :
        c \in Values(SWATH_CHANNELS[instrument][SWATHS[instrument][l]])}}

\* C4: the channel coordinate of the dataset read_gpm_l1c returns is exactly
\* CHANNELS_SORTED[instrument], in that order and without duplicates (16..22
\* for ATMS); every such channel is provided by a swath of SWATHS[instrument],
\* so the final channel selection never fails.
C4_ChannelsSorted ==
    /\ \A i \in Instruments : \A c \in Values(CHANNELS_SORTED[i]) :
            ProvidingSwaths(i, c) # {}
    /\ op = "read_gpm_l1c" =>
        /\ ret # [error |-> "KeyError", key |-> "channel"]
        /\ ~IsError(ret) =>
            /\ ret.channel = NpArray(CHANNELS_SORTED[args.instrument])
            /\ \A c, d \in DOMAIN ret.channel : c # d => ret.channel[c] # ret.channel[d]
            /\ args.instrument = "ATMS" => ret.channel = [c \in Range0(7) |-> 16 + c]
            /\ \A k \in DOMAIN ret.tb : \A j \in DOMAIN ret.tb[k] :
                    DOMAIN ret.tb[k][j] = DOMAIN ret.channel

\* an SSMIS granule is read by distance: the merged channels 8..11, 17, 18
\* come out in the order of CHANNELS_SORTED
C4_Witness ==
    /\ op = "read_gpm_l1c" /\ ~IsError(ret)
    /\ args.instrument = "SSMIS"
    /\ "roi" \notin DOMAIN args
    /\ DOMAIN ret.x # {}
    /\ ret.channel[0] = 17 /\ ret.channel[2] = 8 /\ ret.channel[5] = 11

\* C5: for ATMS and SSMIS read_gpm_l1c selects the scans by the geolocation
\* of the first swath alone; lat, lon, quality, scan_time and footprint_id
\* of the merged result are those of the first swath, and tb of channel c is
\* the Tc of the swath that contains c at the same scan and footprint.
C5_FirstSwathGeolocation ==
    (op = "read_gpm_l1c" /\ args.instrument \in {"ATMS", "SSMIS"} /\ ~IsError(ret)) =>
        LET f == SourceFile(PATH_SAT, ret)
            i == args.instrument
            g == H5Swath(f, SWATHS[i][1])
            npix == Shape2(g.Latitude)[2]
        IN  /\ Values(ret.x) = Selected(g, args)
            /\ Ascending(ret.x)
            /\ \A k \in DOMAIN ret.x :
                /\ ret.lat[k] = g.Latitude[ret.x[k]]
                /\ ret.lon[k] = g.Longitude[ret.x[k]]
                /\ ret.quality[k] = g.Quality[ret.x[k]]
                /\ ret.scan_time[k] = g.ScanTime[ret.x[k]]
                /\ args.add_index =>
                    \A j \in DOMAIN ret.y : ret.footprint_id[k][j] = ret.x[k] * npix + j
                /\ \A j \in DOMAIN ret.y : \A c \in DOMAIN ret.channel :
                    \E s \in ProvidingSwaths(i, ret.channel[c]) :
                        ret.tb[k][j][c] =
                            H5Swath(f, s).Tc[ret.x[k]][j]
                                [PosOf(NpArray(SWATH_CHANNELS[i][s]), ret.channel[c])]

\* a scan is selected by a footprint of the first swath while the second
\* swath has no footprint of that scan in the region
C5_Witness ==
    /\ op = "read_gpm_l1c" /\ args.instrument = "ATMS" /\ ~IsError(ret)
    /\ "roi" \in DOMAIN args
    /\ \E k \in DOMAIN ret.x :
        LET f == SourceFile(PATH_SAT, ret)
            other == H5Swath(f, SWATHS["ATMS"][2])
        IN  /\ ret.x[k] \notin Selected(other, args)
            /\ ret.tb[k][0][1][3] = "S4"
            /\ ret.tb[k][0][0][3] = "S3"

\* the rows of a merged AMSR2 dataset whose tb was read from a swath
RowsOf(ds, swath) == {k \in DOMAIN ds.x : ds.tb[k][0][0][3] = swath}

\* C6: in the AMSR2 dataset of read_gpm_l1c no x value of an A-scan (S5) row
\* equals the x value of a B-scan (S6) row and no footprint_id of an A-scan
\* footprint equals that of a B-scan footprint, whatever scans are selected.
C6_ScansDistinguishable ==
    (op = "read_gpm_l1c" /\ args.instrument = "AMSR2" /\ ~IsError(ret)) =>
        \A k \in RowsOf(ret, "S5") : \A l \in RowsOf(ret, "S6") :
            /\ ret.x[k] # ret.x[l]
            /\ \A j, m \in DOMAIN ret.y : ret.footprint_id[k][j] # ret.footprint_id[l][m]

\* a stored file has a scan with a footprint in the region whose scan time,
\* when a time window is given, is within time_offset of time
Qualifies(f, kw) ==
    LET g == H5Swath(f, SWATHS[kw.instrument][1])
    IN  \E i \in Selected(g, kw) :
            "time" \in DOMAIN kw => Abs(g.ScanTime[i] - kw.time) <= kw.time_offset

\* the stored files a call looks at: of the satellite, and of the start date
\* when only a date is given
Stored(dir, kw) ==
    {f \in SatFiles(dir, kw) : "time" \notin DOMAIN kw => f.date = kw.date}

\* C7: in_roi returns exactly the granules of the stored files of the
\* instrument/satellite that have a scan with a footprint in the region and,
\* when time and time_offset are given, with a scan time within time_offset
\* of time; no such granule is left out, also not one whose orbit spans the
\* whole time window or starts on another day.
C7_GranulesInWindow ==
    (op = "in_roi" /\ ~IsError(ret)) =>
        Values(ret.granules) = {f.granule : f \in {h \in Stored(PATH_SAT, args) : Qualifies(h, args)}}

\* the flight ids of the catalogue
AllFlightIds(meta) ==
    UNION { UNION { Values(Keys(meta[a][2][b][2])) : b \in DOMAIN meta[a][2] } :
            a \in DOMAIN meta }

\* the names an argument gives, as a string or as a list
ArgNames(arg) == IF "str" \in DOMAIN arg THEN {arg.str} ELSE Values(arg.list)

\* the argument as a list: a string becomes the one-element list
ListForm(arg) == IF "str" \in DOMAIN arg THEN [list |-> <<arg.str>>] ELSE arg

AllFlightsResult ==
    /\ Values(ret) =
        {f \in AllFlightIds(META) :
            f[1] \in ArgNames(args.mission) /\ f[2] \in ArgNames(args.platform)}
        \ {<<"HALO-AC3", "HALO", "RF00">>, <<"HALO-AC3", "HALO", "RF01">>}
    /\ \A k, l \in DOMAIN ret : k # l => ret[k] # ret[l]
    /\ ret = get_all_flights(META, ListForm(args.mission), ListForm(args.platform))

\* C8: get_all_flights returns exactly the flight ids of the catalogue whose
\* mission is in `mission` and whose platform is in `platform`, each once,
\* without HALO-AC3_HALO_RF00 and HALO-AC3_HALO_RF01; a string argument
\* gives the result of the one-element list; the catalogue is not modified.
C8_AllFlights ==
    [][op' = "get_all_flights" => (META' = META /\ AllFlightsResult')]_vars

\* both HALO flights to be left out are in the catalogue, the platform is
\* given as a string, and the third HALO flight is returned
C8_Witness ==
    /\ op = "get_all_flights"
    /\ {<<"HALO-AC3", "HALO", "RF00">>, <<"HALO-AC3", "HALO", "RF01">>} \subseteq AllFlightIds(META)
    /\ args.platform = [str |-> "HALO"]
    /\ ret = << <<"HALO-AC3", "HALO", "RF02">> >>

\* C10: pamtra2instrument with a polarization outside {V, H, QV, QH} ends in
\* an error and returns no tb; for V and H it returns the selected
\* polarization, for QV and QH the mixed one, and none of the four reaches
\* the error.
C10_PolarizationError ==
    op = "pamtra2instrument" =>
        LET da_tb == args.ds_pam[IF args.is_satellite THEN SatelliteHeight ELSE args.altitude]
                                [Abs(args.incidence_angle)]
            w == Cos2(args.altitude, Abs(args.incidence_angle))
        IN  /\ args.polarization \notin {"V", "H", "QV", "QH"} =>
                IsError(ret) /\ "tb" \notin DOMAIN ret
            /\ args.polarization \in {"V", "H"} =>
                ~IsError(ret) /\ ret.tb = WeightScale * da_tb[args.polarization]
            /\ args.polarization = "QV" =>
                ~IsError(ret) /\ ret.tb = w * da_tb.V + (WeightScale - w) * da_tb.H
            /\ args.polarization = "QH" =>
                ~IsError(ret) /\ ret.tb = w * da_tb.H + (WeightScale - w) * da_tb.V

\* an unknown polarization has ended in the error
C10_Witness ==
    /\ op = "pamtra2instrument"
    /\ args.polarization = "RC"
    /\ ret = [error |-> "TypeError"]

(* --------------------------- MiRAC-A reader --------------------------- *)
\* key in d, and d[key], of a dictionary
DictHas(d, key) == \E k \in DOMAIN d : d[k][1] = key
DictGet(d, key) == d[CHOOSE k \in DOMAIN d : d[k][1] = key][2]

\* META[mission][platform][flight_id], with the KeyError of a missing key
meta(m, flight_id) ==
    IF ~DictHas(m, flight_id[1]) THEN [error |-> "KeyError"]
    ELSE IF ~DictHas(DictGet(m, flight_id[1]), flight_id[2]) THEN [error |-> "KeyError"]
    ELSE IF ~DictHas(DictGet(DictGet(m, flight_id[1]), flight_id[2]), flight_id)
         THEN [error |-> "KeyError"]
    ELSE DictGet(DictGet(DictGet(m, flight_id[1]), flight_id[2]), flight_id)

day_of_flight(m, flight_id) ==
    IF IsError(meta(m, flight_id)) THEN meta(m, flight_id) ELSE meta(m, flight_id).date

\* the flights without public MiRAC-A data
KnownMissing ==
    {<<"HALO-AC3", "P5", "RF02">>, <<"ACLOUD", "P5", "RF13">>, <<"HALO-AC3", "P5", "RF06">>}

\* the compact file of a flight in the campaign directory
CompactFile(mission, date, name) == <<"mirac_radar/compact", mission, date, name>>

\* xr.open_dataset(path): a dataset that reads from the open file
open_dataset(obs, path) ==
    IF path \in obs THEN [dataset |-> path, file |-> {path}]
    ELSE [error |-> "FileNotFoundError"]

\* CAT[mission][platform]["MiRAC-A"][flight_id](...).read(): the data are
\* loaded; a flight without entry gives KeyError, a failed transfer OSError
\* xarray_kwargs are handed to xr.open_dataset: the variables of
\* drop_variables are not read
CatRead(cat, flight_id, reachable, xarray_kwargs) ==
    IF flight_id \notin cat THEN [error |-> "KeyError"]
    ELSE IF ~reachable THEN [error |-> "OSError"]
    ELSE [dataset |-> <<"MiRAC-A", flight_id>>, file |-> {}] @@ xarray_kwargs

\* every flight missing from the catalogue gives None
read_mirac_a_any_missing(m, cat, obs, flight_id, offline, reachable, xarray_kwargs) ==
    LET date == day_of_flight(m, flight_id)
    IN  IF IsError(meta(m, flight_id)) THEN date
        ELSE IF offline
        THEN open_dataset(obs, CompactFile(flight_id[1], date, flight_id[3]))
        ELSE LET ds == CatRead(cat, flight_id, reachable, xarray_kwargs)
             IN  IF IsError(ds) /\ ds.error = "KeyError" THEN [none |-> TRUE] ELSE ds

read_mirac_a(m, cat, obs, flight_id, offline, reachable, xarray_kwargs) ==
    LET date == day_of_flight(m, flight_id)
    IN  IF IsError(meta(m, flight_id)) THEN date
        ELSE IF offline
        THEN open_dataset(obs, CompactFile(flight_id[1], date, flight_id[3]))
        ELSE LET ds == CatRead(cat, flight_id, reachable, xarray_kwargs)
             IN  IF IsError(ds) /\ ds.error = "KeyError"
                 THEN IF flight_id \in KnownMissing THEN [none |-> TRUE]
                      ELSE [error |-> "AssertionError"]
                 ELSE ds

\* the variables of a MiRAC-A file the source names
MiracVariables == {"tb", "Ze", "Ze_flag", "Ze_unfiltered", "height", "lon", "lat", "alt"}

\* the variables of a dataset: those of the file that were not dropped
\* when the dataset was opened
DataVars(ds) ==
    MiracVariables \ (IF "drop_variables" \in DOMAIN ds THEN ds.drop_variables ELSE {})

\* the dimensions of a dataset; those of the file are reduced to time
Dims(ds) == IF "dims" \in DOMAIN ds THEN ds.dims ELSE <<"time">>

\* ds.expand_dims({dim: values}, axis=-1): a new last dimension
expand_dims(ds, dim, values) ==
    [k \in {dim} |-> values] @@ [dims |-> Dims(ds) \o <<dim>>] @@ ds

read_mirac_a_tb(m, cat, obs, flight_id, reachable) ==
    LET ds == read_mirac_a(m, cat, obs, flight_id, TRUE, reachable,
                           [drop_variables |-> {"Ze", "Ze_flag", "Ze_unfiltered",
                                                "height", "lon", "lat", "alt"}])
    IN  IF IsError(ds) \/ "none" \in DOMAIN ds THEN ds
        ELSE expand_dims(ds, "channel", <<1>>)

\* the flights of the Polar 5 the reader is called for
MiracFlights == KnownMissing \cup {<<"ACLOUD", "P5", "RF23">>}

\* the day of a flight
FlightDate(f) ==
    IF f[3] = "RF02" THEN 2 ELSE IF f[3] = "RF06" THEN 6 ELSE IF f[3] = "RF13" THEN 13 ELSE 23

\* the flights of a set with their records, as a dictionary
RECURSIVE FlightDict(_)
FlightDict(S) ==
    IF S = {} THEN << >>
    ELSE LET f == CHOOSE g \in S : \A h \in S : FlightDate(g) <= FlightDate(h)
         IN  << <<f, [date |-> FlightDate(f)]>> >> \o FlightDict(S \ {f})

\* the catalogue of the flights of a set; a mission without flight is absent
MiracCatalogue(S) ==
    LET Of(mission) == {f \in S : f[1] = mission}
        Entry(mission) == IF Of(mission) = {} THEN << >>
                          ELSE << <<mission, << <<"P5", FlightDict(Of(mission))>> >> >> >>
    IN  Entry("ACLOUD") \o Entry("HALO-AC3")

InitMirac ==
    /\ op = "init"
    /\ args = << >>
    /\ ret = << >>
    /\ PATH_SAT = NoFiles
    /\ handles = {}
    /\ pc = [at |-> "idle"]
    /\ \E S \in SUBSET MiracFlights : META = MiracCatalogue(S)
    /\ CAT \in SUBSET MiracFlights
    /\ \E S \in SUBSET MiracFlights :
            DATA_OBS = {CompactFile(f[1], FlightDate(f), f[3]) : f \in S}

CallReadMiracA ==
    /\ op = "init"
    /\ \E flight_id \in MiracFlights, offline \in BOOLEAN, reachable \in BOOLEAN,
          xarray_kwargs \in {<< >>, [drop_variables |-> {"Ze"}]} :
        /\ op' = "read_mirac_a"
        /\ args' = [flight_id |-> flight_id, offline |-> offline] @@ xarray_kwargs
        /\ ret' = read_mirac_a(META, CAT, DATA_OBS, flight_id, offline, reachable,
                               xarray_kwargs)
        /\ handles' = IF "file" \in DOMAIN ret' THEN handles \cup ret'.file ELSE handles
        /\ UNCHANGED <<META, PATH_SAT, CAT, DATA_OBS, pc>>

CallReadMiracATb ==
    /\ op = "init"
    /\ \E flight_id \in MiracFlights, reachable \in BOOLEAN :
        /\ op' = "read_mirac_a_tb"
        /\ args' = [flight_id |-> flight_id]
        /\ ret' = read_mirac_a_tb(META, CAT, DATA_OBS, flight_id, reachable)
        /\ handles' = IF "file" \in DOMAIN ret' THEN handles \cup ret'.file ELSE handles
        /\ UNCHANGED <<META, PATH_SAT, CAT, DATA_OBS, pc>>

NextMirac == CallReadMiracA \/ CallReadMiracATb

SpecMirac == InitMirac /\ [][NextMirac]_vars

\* C11: read_mirac_a returns None only with offline=False for a flight of
\* the known-missing list that has no catalogue entry; any other flight
\* without catalogue entry ends in an error, and with offline=True the
\* call never returns None.
C11_NoneOnlyKnownMissing ==
    op = "read_mirac_a" =>
        /\ "none" \in DOMAIN ret =>
            /\ ~args.offline
            /\ args.flight_id \notin CAT
            /\ args.flight_id \in KnownMissing
        /\ (~args.offline /\ args.flight_id \notin CAT /\ args.flight_id \notin KnownMissing)
            => IsError(ret)
        /\ args.offline => "none" \notin DOMAIN ret

\* a known-missing flight without catalogue entry has given None
C11_Witness ==
    /\ op = "read_mirac_a"
    /\ args = [flight_id |-> <<"ACLOUD", "P5", "RF13">>, offline |-> FALSE]
    /\ <<"ACLOUD", "P5", "RF13">> \notin CAT
    /\ ret = [none |-> TRUE]

\* a flight outside the list without catalogue entry has ended in the
\* failed assertion
C11_WitnessAssertion ==
    /\ op = "read_mirac_a"
    /\ args = [flight_id |-> <<"ACLOUD", "P5", "RF23">>, offline |-> FALSE]
    /\ ret = [error |-> "AssertionError"]

(* ----------------------------- file handles --------------------------- *)
\* The readers that open files are followed statement by statement: pc.at
\* is "with" inside a with block, "exit" when the block is left (normally
\* or by an exception, pc.result telling which), "for" at the head of the
\* loop of in_roi, "opened" after xr.open_dataset, and "returned" or "raised"
\* when the call has ended.

\* the file of the satellite tracks in PATH_SAT
TracksFile == [sat |-> "tracks/sat_tracks.nc"]

\* the file is left open when the block is left by an exception
WithExit_leak_on_error(open, f, result) ==
    IF IsError(result) THEN open ELSE open \ {f}

\* leaving "with h5py.File(file) as f": the file is closed, whether the
\* block ended normally or by an exception
WithExit(open, f, result) == open \ {f}

\* the swaths a granule file of an instrument has
SwathsOf(instrument) == DOMAIN SWATH_CHANNELS[instrument]

\* the body of the with block of read_gpm_l1c_swath
SwathBody(dir, kw) ==
    LET sg == IF IsNone(kw, "sg") /\ IsNone(kw, "st") THEN kw.swath ELSE kw.sg
        st == IF IsNone(kw, "sg") /\ IsNone(kw, "st") THEN kw.swath ELSE kw.st
    IN  IF sg \notin SwathsOf(kw.instrument) \/ st \notin SwathsOf(kw.instrument)
        THEN [error |-> "KeyError"]
        ELSE IF IsNone(kw, "roi") /\ IsNone(kw, "center_lat")
        THEN [error |-> "TypeError"]
        ELSE read_gpm_l1c_swath(dir, kw)

\* the body of the with block of in_roi for one file
RoiBody(f, kw) ==
    IF IsNone(kw, "roi") /\ IsNone(kw, "center_lat")
    THEN [error |-> "TypeError"]
    ELSE [hit |-> ScanInRoi(f, kw)]

\* the regions of a call, with the call that names none
HandleRegions == GranuleRegions \cup {<< >>}

InitHandles ==
    /\ op = "init"
    /\ args = << >>
    /\ ret = << >>
    /\ META = NoMeta
    /\ CAT = {}
    /\ DATA_OBS = {}
    /\ handles = {}
    /\ pc = [at |-> "idle"]
    /\ \E start \in 0 .. MaxStart, geo \in OrbitGeoArrays, tracks \in BOOLEAN :
            PATH_SAT = OrbitDirectory(start, geo)
                        \o (IF tracks THEN <<TracksFile>> ELSE << >>)

\* read_gpm_l1c_swath up to the with statement: the file is looked up and
\* opened
SwathCall ==
    /\ op = "init"
    /\ \E granule \in {51812, GranuleOther}, swath \in {"S1", "S2"},
          region \in HandleRegions :
        LET kw == [instrument |-> "MHS", satellite |-> "NOAA-18", granule |-> granule,
                   add_index |-> TRUE, swath |-> swath] @@ region
            found == FirstMatch(Glob(PATH_SAT, FILENAME_SAT[<<"MHS", "NOAA-18">>],
                                     ZFill(Str(granule), GranuleWidth)))
        IN  /\ op' = "read_gpm_l1c_swath"
            /\ args' = kw
            /\ IF IsError(found)
               THEN /\ ret' = found
                    /\ pc' = [at |-> "raised"]
                    /\ handles' = handles
               ELSE /\ ret' = << >>
                    /\ pc' = [at |-> "with", f |-> found.file]
                    /\ handles' = handles \cup {found.file}
            /\ UNCHANGED <<META, PATH_SAT, CAT, DATA_OBS>>

SwathWith ==
    /\ op = "read_gpm_l1c_swath"
    /\ pc.at = "with"
    /\ pc' = [at |-> "exit", f |-> pc.f, result |-> SwathBody(PATH_SAT, args)]
    /\ UNCHANGED <<op, args, ret, META, PATH_SAT, CAT, DATA_OBS, handles>>

SwathExit ==
    /\ op = "read_gpm_l1c_swath"
    /\ pc.at = "exit"
    /\ handles' = WithExit(handles, pc.f, pc.result)
    /\ ret' = pc.result
    /\ pc' = [at |-> IF IsError(pc.result) THEN "raised" ELSE "returned"]
    /\ UNCHANGED <<op, args, META, PATH_SAT, CAT, DATA_OBS>>

\* in_roi up to the loop: the files are listed
RoiCall ==
    /\ op = "init"
    /\ \E region \in HandleRegions, window \in TimeArgs :
        LET kw == [instrument |-> "MHS", satellite |-> "NOAA-18"] @@ region @@ window
            files == get_files(PATH_SAT, kw)
        IN  /\ op' = "in_roi"
            /\ args' = kw
            /\ IF IsError(files)
               THEN /\ ret' = files
                    /\ pc' = [at |-> "raised"]
               ELSE /\ ret' = << >>
                    /\ pc' = [at |-> "for", files |-> files.files, granules |-> << >>]
            /\ UNCHANGED <<META, PATH_SAT, CAT, DATA_OBS, handles>>

\* the head of the loop: the next file is opened, or the list is returned
RoiFor ==
    /\ op = "in_roi"
    /\ pc.at = "for"
    /\ IF pc.files = << >>
       THEN /\ ret' = [granules |-> pc.granules]
            /\ pc' = [at |-> "returned"]
            /\ handles' = handles
       ELSE /\ ret' = ret
            /\ pc' = [at |-> "with", f |-> Head(pc.files), files |-> Tail(pc.files),
                      granules |-> pc.granules]
            /\ handles' = handles \cup {Head(pc.files)}
    /\ UNCHANGED <<op, args, META, PATH_SAT, CAT, DATA_OBS>>

RoiWith ==
    /\ op = "in_roi"
    /\ pc.at = "with"
    /\ pc' = [at |-> "exit", f |-> pc.f, files |-> pc.files, granules |-> pc.granules,
              result |-> RoiBody(pc.f, args)]
    /\ UNCHANGED <<op, args, ret, META, PATH_SAT, CAT, DATA_OBS, handles>>

RoiExit ==
    /\ op = "in_roi"
    /\ pc.at = "exit"
    /\ handles' = WithExit(handles, pc.f, pc.result)
    /\ IF IsError(pc.result)
       THEN /\ ret' = pc.result
            /\ pc' = [at |-> "raised"]
       ELSE /\ ret' = ret
            /\ pc' = [at |-> "for", files |-> pc.files,
                      granules |-> pc.granules \o
                        (IF pc.result.hit THEN <<pc.f.granule>> ELSE << >>)]
    /\ UNCHANGED <<op, args, META, PATH_SAT, CAT, DATA_OBS>>

\* read_sat_tracks: xr.open_dataset
TracksCall ==
    /\ op = "init"
    /\ \E window \in {<< >>, [t0 |-> 0, t1 |-> 1], [t0 |-> 0]} :
        LET ds == open_dataset(Values(PATH_SAT), TracksFile)
        IN  /\ op' = "read_sat_tracks"
            /\ args' = window
            /\ IF IsError(ds)
               THEN /\ ret' = ds
                    /\ pc' = [at |-> "raised"]
                    /\ handles' = handles
               ELSE /\ ret' = << >>
                    /\ pc' = [at |-> "opened", ds |-> ds]
                    /\ handles' = handles \cup ds.file
            /\ UNCHANGED <<META, PATH_SAT, CAT, DATA_OBS>>

\* the rest of read_sat_tracks: the time window is selected from the
\* dataset, which goes on reading from the open file, and returned
TracksReturn ==
    /\ op = "read_sat_tracks"
    /\ pc.at = "opened"
    /\ ret' = IF ~IsNone(args, "t0") /\ ~IsNone(args, "t1")
              THEN [pc.ds EXCEPT !.dataset = <<"sel", args.t0, args.t1, pc.ds.dataset>>]
              ELSE pc.ds
    /\ pc' = [at |-> "returned"]
    /\ UNCHANGED <<op, args, META, PATH_SAT, CAT, DATA_OBS, handles>>

NextHandles ==
    \/ SwathCall \/ SwathWith \/ SwathExit
    \/ RoiCall \/ RoiFor \/ RoiWith \/ RoiExit
    \/ TracksCall \/ TracksReturn

SpecHandles == InitHandles /\ [][NextHandles]_vars

\* the call has ended, by a return or by an exception
Ended == pc.at \in {"returned", "raised"}

\* the files the result of the call reads from
HeldBy(r) == IF "file" \in DOMAIN r THEN r.file ELSE {}

\* C12 as stated: when a reader has ended, by return or by an error, no file
\* it opened is still open and its result holds no open file.
C12_HandlesReleased ==
    Ended => (handles = {} /\ HeldBy(ret) = {})

\* C12 as amended: when read_gpm_l1c_swath or in_roi has ended, by return or
\* by an error, no file is open and the result holds none; read_sat_tracks
\* returns a dataset that holds the file it opened, which stays open, and
\* leaves no file open when it ends in an error.
C12_H5HandlesReleased ==
    Ended =>
        /\ op \in {"read_gpm_l1c_swath", "in_roi"} => (handles = {} /\ HeldBy(ret) = {})
        /\ (op = "read_sat_tracks" /\ pc.at = "returned") =>
                (handles = {TracksFile} /\ HeldBy(ret) = {TracksFile})
        /\ (op = "read_sat_tracks" /\ pc.at = "raised") => handles = {}

\* read_gpm_l1c_swath has ended in the error raised inside its with block
C12_Witness ==
    /\ op = "read_gpm_l1c_swath"
    /\ pc.at = "raised"
    /\ ret = [error |-> "KeyError"]
    /\ handles = {}

\* in_roi has returned a granule after opening files
C12_WitnessRoi ==
    /\ op = "in_roi"
    /\ pc.at = "returned"
    /\ Len(ret.granules) = 2

(* ------------------------------ bit flags ----------------------------- *)
\* number of bits of a uint8
FlagBits == 8

\* largest number of samples of a modelled mask
FlagSamples == 2

RECURSIVE Pow2(_)
Pow2(i) == IF i = 0 THEN 1 ELSE 2 * Pow2(i - 1)

\* np.zeros(shape) with shape[0] = 8 and mask[:n, ...] = boolean_mask: the
\* masks in the first n rows (a boolean is the uint8 0 or 1); more than
\* eight masks do not fit
PadRows(boolean_mask, shape) ==
    [i \in Range0(FlagBits) |-> [j \in Range0(shape[2]) |->
        IF i < shape[1] THEN boolean_mask[i][j] ELSE 0]]

RECURSIVE PackBits_big(_, _, _)
\* the bits of a column are packed with the first row as the highest bit
PackBits_big(mask, j, i) ==
    IF i = FlagBits THEN 0
    ELSE (IF mask[i][j] # 0 THEN Pow2(FlagBits - 1 - i) ELSE 0) + PackBits_big(mask, j, i + 1)

RECURSIVE PackBits(_, _, _)
\* np.packbits(mask, axis=0, bitorder="little") of the column j from row i
\* on: a row that is not zero sets its bit, the first row the lowest
PackBits(mask, j, i) ==
    IF i = FlagBits THEN 0
    ELSE (IF mask[i][j] # 0 THEN 1 ELSE 0) + 2 * PackBits(mask, j, i + 1)

pack_bit_mask(boolean_mask) ==
    LET shape == Shape2(boolean_mask)
    IN  IF shape[1] > FlagBits THEN [error |-> "ValueError"]
        ELSE LET mask == PadRows(boolean_mask, shape)
             IN  [bit_mask |-> [j \in Range0(shape[2]) |-> PackBits(mask, j, 0) % Pow2(FlagBits)]]

\* np.unpackbits(bit_mask[np.newaxis, ...], axis=0, bitorder="little")
unpack_bit_mask(bit_mask) ==
    [i \in Range0(FlagBits) |-> [j \in DOMAIN bit_mask |-> (bit_mask[j] \div Pow2(i)) % 2]]

\* n masks of m samples: the samples of a mask follow from those of the
\* first sample by a rotation of the masks
BoolMasks(n, m) ==
    { [i \in Range0(n) |-> [j \in Range0(m) |-> b[(i + j) % n]]] : b \in [Range0(n) -> {0, 1}] }

InitFlags ==
    /\ Elsewhere
    /\ op = "init"
    /\ args = << >>
    /\ ret = << >>
    /\ META = NoMeta
    /\ PATH_SAT = NoFiles

CallPackBitMask ==
    /\ op = "init"
    /\ \E n \in 1 .. (FlagBits + 1), m \in 1 .. FlagSamples :
       \E boolean_mask \in BoolMasks(n, m) :
        /\ op' = "pack_bit_mask"
        /\ args' = [boolean_mask |-> boolean_mask]
        /\ ret' = pack_bit_mask(boolean_mask)
        /\ UNCHANGED <<META, PATH_SAT, CAT, DATA_OBS, handles, pc>>

\* unpack_bit_mask of the value pack_bit_mask returned
CallUnpackBitMask ==
    /\ op = "pack_bit_mask"
    /\ ~IsError(ret)
    /\ op' = "unpack_bit_mask"
    /\ args' = [bit_mask |-> ret.bit_mask, boolean_mask |-> args.boolean_mask]
    /\ ret' = unpack_bit_mask(ret.bit_mask)
    /\ UNCHANGED <<META, PATH_SAT, CAT, DATA_OBS, handles, pc>>


\* A dataset is its variables (vars: name -> values along the samples) and
\* the attributes of its variables (attrs).  A name is the sequence of the
\* words it consists of, which a blank separates in the string.

\* " ".join(names)
RECURSIVE Join(_)
Join(names) == IF names = << >> THEN << >> ELSE Head(names) \o Join(Tail(names))

\* s.split(" ")
Split(s) == [k \in DOMAIN s |-> <<s[k]>>]

\* ds[name] = values
SetVar(ds, name, values) ==
    [ds EXCEPT !.vars = [n \in DOMAIN ds.vars \cup {name} |->
                            IF n = name THEN values ELSE ds.vars[n]],
               !.attrs = [n \in DOMAIN ds.attrs \ {name} |-> ds.attrs[n]]]

\* ds.drop(names)
Drop(ds, names) ==
    [ds EXCEPT !.vars = [n \in DOMAIN ds.vars \ names |-> ds.vars[n]],
               !.attrs = [n \in DOMAIN ds.attrs \ names |-> ds.attrs[n]]]

\* ds[bool_vars].to_array().values: one row per variable
ToArray(ds, bool_vars) == [i \in Range0(Len(bool_vars)) |-> ds.vars[bool_vars[i + 1]]]

\* the flag masks count the bits from two on
write_flag_xarray_masks_from_two(ds, bool_vars, bool_meanings, bit_mask_name, drop) ==
    IF \E k \in DOMAIN bool_vars : bool_vars[k] \notin DOMAIN ds.vars
    THEN [error |-> "KeyError"]
    ELSE LET packed == pack_bit_mask(ToArray(ds, bool_vars))
         IN  IF IsError(packed) THEN packed
             ELSE LET new == SetVar(ds, bit_mask_name, packed.bit_mask)
                      flagged == [new EXCEPT !.attrs =
                            [n \in DOMAIN new.attrs \cup {bit_mask_name} |->
                                IF n = bit_mask_name
                                THEN [flag_meanings |-> Join(bool_meanings),
                                      flag_masks |-> [i \in Range0(Len(bool_meanings)) |->
                                                        Pow2(i + 1) % Pow2(FlagBits)]]
                                ELSE new.attrs[n]]]
                  IN  IF drop THEN Drop(flagged, Values(bool_vars)) ELSE flagged

write_flag_xarray(ds, bool_vars, bool_meanings, bit_mask_name, drop) ==
    IF \E k \in DOMAIN bool_vars : bool_vars[k] \notin DOMAIN ds.vars
    THEN [error |-> "KeyError"]
    ELSE LET packed == pack_bit_mask(ToArray(ds, bool_vars))
         IN  IF IsError(packed) THEN packed
             ELSE LET new == SetVar(ds, bit_mask_name, packed.bit_mask)
                      flagged == [new EXCEPT !.attrs =
                            [n \in DOMAIN new.attrs \cup {bit_mask_name} |->
                                IF n = bit_mask_name
                                THEN [flag_meanings |-> Join(bool_meanings),
                                      flag_masks |-> [i \in Range0(Len(bool_meanings)) |->
                                                        Pow2(i) % Pow2(FlagBits)]]
                                ELSE new.attrs[n]]]
                  IN  IF drop THEN Drop(flagged, Values(bool_vars)) ELSE flagged

\* the loop of read_flag_xarray from the i-th meaning on
RECURSIVE FlagLoop(_, _, _, _)
FlagLoop(ds, flag_meanings, boolean_mask, i) ==
    IF i > Len(flag_meanings) THEN ds
    ELSE IF i > FlagBits THEN [error |-> "IndexError"]
    ELSE FlagLoop(SetVar(ds, flag_meanings[i], boolean_mask[i - 1]),
                  flag_meanings, boolean_mask, i + 1)

\* the i-th meaning is given the mask of bit i + 1
read_flag_xarray_next_bit(ds, bit_mask_name, drop) ==
    IF bit_mask_name \notin DOMAIN ds.vars THEN [error |-> "KeyError"]
    ELSE LET flag_meanings == Split(ds.attrs[bit_mask_name].flag_meanings)
             unpacked == unpack_bit_mask(ds.vars[bit_mask_name])
             boolean_mask == [i \in Range0(FlagBits) |-> unpacked[(i + 1) % FlagBits]]
             read == FlagLoop(ds, flag_meanings, boolean_mask, 1)
         IN  IF IsError(read) THEN read
             ELSE IF drop THEN Drop(read, {bit_mask_name}) ELSE read

read_flag_xarray(ds, bit_mask_name, drop) ==
    IF bit_mask_name \notin DOMAIN ds.vars THEN [error |-> "KeyError"]
    ELSE LET flag_meanings == Split(ds.attrs[bit_mask_name].flag_meanings)
             boolean_mask == unpack_bit_mask(ds.vars[bit_mask_name])
             read == FlagLoop(ds, flag_meanings, boolean_mask, 1)
         IN  IF IsError(read) THEN read
             ELSE IF drop THEN Drop(read, {bit_mask_name}) ELSE read


\* the names of the boolean variables of a modelled dataset
VarWords == <<"v0", "v1", "v2", "v3", "v4", "v5", "v6", "v7", "v8">>
VarName(i) == <<VarWords[i + 1]>>

\* the meanings of bit i where the meanings are plain
MeaningWords == <<"m0", "m1", "m2", "m3", "m4", "m5", "m6", "m7", "m8">>

\* the name of the bit mask
FlagName == <<"surf_type">>

\* the meanings a short list is made of: words, two words with a blank, and
\* the name of the bit mask
Meanings == {<<"land">>, <<"sea", "ice">>, FlagName}

MeaningLists(n) ==
    IF n <= 2 THEN [1 .. n -> Meanings] \cup {[k \in 1 .. n |-> <<MeaningWords[k]>>]}
    ELSE {[k \in 1 .. n |-> <<MeaningWords[k]>>]}

\* the dataset of n boolean variables
FlagDataset(boolean_mask) ==
    [vars |-> [name \in {VarName(i) : i \in DOMAIN boolean_mask} |->
                boolean_mask[CHOOSE i \in DOMAIN boolean_mask : VarName(i) = name]],
     attrs |-> << >>]

\* the variables in the order of the dataset, or in the reverse order
VarLists(n) == {[k \in 1 .. n |-> VarName(k - 1)], [k \in 1 .. n |-> VarName(n - k)]}

CallWriteFlagXarray ==
    /\ op = "init"
    /\ \E n \in 1 .. (FlagBits + 1), m \in 1 .. FlagSamples, drop \in BOOLEAN :
       \E boolean_mask \in BoolMasks(n, m), bool_vars \in VarLists(n),
          bool_meanings \in MeaningLists(n) :
        /\ op' = "write_flag_xarray"
        /\ args' = [ds |-> FlagDataset(boolean_mask), bool_vars |-> bool_vars,
                    bool_meanings |-> bool_meanings, bit_mask_name |-> FlagName,
                    drop |-> drop]
        /\ ret' = write_flag_xarray(FlagDataset(boolean_mask), bool_vars, bool_meanings,
                                    FlagName, drop)
        /\ UNCHANGED <<META, PATH_SAT, CAT, DATA_OBS, handles, pc>>

\* read_flag_xarray of the dataset write_flag_xarray returned
CallReadFlagXarray ==
    /\ op = "write_flag_xarray"
    /\ ~IsError(ret)
    /\ \E drop \in BOOLEAN :
        /\ op' = "read_flag_xarray"
        /\ args' = [ds |-> ret, bit_mask_name |-> args.bit_mask_name, drop |-> drop,
                    written |-> args]
        /\ ret' = read_flag_xarray(ret, args.bit_mask_name, drop)
        /\ UNCHANGED <<META, PATH_SAT, CAT, DATA_OBS, handles, pc>>

NextFlags ==
    \/ CallPackBitMask \/ CallUnpackBitMask
    \/ CallWriteFlagXarray \/ CallReadFlagXarray

SpecFlags == InitFlags /\ [][NextFlags]_vars

\* the sum over the masks i of mask_i * 2^i at sample j
RECURSIVE BitSum(_, _, _)
BitSum(boolean_mask, j, n) ==
    IF n = 0 THEN 0
    ELSE boolean_mask[n - 1][j] * Pow2(n - 1) + BitSum(boolean_mask, j, n - 1)

\* C13: for n <= 8 boolean masks pack_bit_mask returns at each element the
\* uint8 value sum_i mask_i * 2^i, and unpack_bit_mask of that value has
\* eight rows, the rows 0..n-1 equal to the masks and the rows n..7 zero.
C13_PackUnpack ==
    LET m == args.boolean_mask
        n == Cardinality(DOMAIN m)
    IN  /\ (op = "pack_bit_mask" /\ n <= FlagBits) =>
            /\ ~IsError(ret)
            /\ DOMAIN ret.bit_mask = DOMAIN m[0]
            /\ \A j \in DOMAIN m[0] :
                /\ ret.bit_mask[j] = BitSum(m, j, n)
                /\ ret.bit_mask[j] \in 0 .. 255
        /\ op = "unpack_bit_mask" =>
            /\ DOMAIN ret = 0 .. 7
            /\ \A i \in 0 .. 7 : ret[i] = IF i < n THEN m[i] ELSE [j \in DOMAIN m[0] |-> 0]

\* three masks of two samples were packed and unpacked again
C13_Witness ==
    /\ op = "unpack_bit_mask"
    /\ Cardinality(DOMAIN args.boolean_mask) = 3
    /\ args.bit_mask = [j \in 0 .. 1 |-> IF j = 0 THEN 5 ELSE 6]
    /\ ret[2] = [j \in 0 .. 1 |-> 1]


\* the arguments of the write_flag_xarray call a state follows from
Written == IF op = "read_flag_xarray" THEN args.written ELSE args

\* what write_flag_xarray stores: the flag masks 2^0 .. 2^(k-1), bit i of
\* the packed value equal to the i-th variable, and the source variables
\* absent with drop and present without
FlagWritten ==
    LET w == Written
        k == Len(w.bool_vars)
    IN  (op = "write_flag_xarray" /\ k <= FlagBits) =>
            /\ ~IsError(ret)
            /\ ret.attrs[w.bit_mask_name].flag_masks = [i \in Range0(k) |-> Pow2(i)]
            /\ \A i \in Range0(k) : \A j \in DOMAIN ret.vars[w.bit_mask_name] :
                    (ret.vars[w.bit_mask_name][j] \div Pow2(i)) % 2
                        = w.ds.vars[w.bool_vars[i + 1]][j]
            /\ w.drop => Values(w.bool_vars) \cap DOMAIN ret.vars = {}
            /\ ~w.drop => Values(w.bool_vars) \subseteq DOMAIN ret.vars

\* what read_flag_xarray creates: for every i the variable named by the i-th
\* meaning with the values of the i-th variable, and the bit mask absent
\* with drop and present without
FlagRead ==
    LET w == Written
    IN  /\ ~IsError(ret)
        /\ \A i \in DOMAIN w.bool_meanings :
            /\ w.bool_meanings[i] \in DOMAIN ret.vars
            /\ ret.vars[w.bool_meanings[i]] = w.ds.vars[w.bool_vars[i]]
        /\ args.drop => args.bit_mask_name \notin DOMAIN ret.vars
        /\ ~args.drop => args.bit_mask_name \in DOMAIN ret.vars

PlainMeanings(w) ==
    /\ \A i \in DOMAIN w.bool_meanings :
        Len(w.bool_meanings[i]) = 1 /\ w.bool_meanings[i] # w.bit_mask_name
    /\ \A i, l \in DOMAIN w.bool_meanings : i # l => w.bool_meanings[i] # w.bool_meanings[l]

TbSteps == 20

Float(v) == [nan |-> FALSE, v |-> v]
NaNFloat == [nan |-> TRUE, v |-> 0]

\* the missing value of the files, -9999, as a brightness temperature and
\* as a coordinate
MissingValue == -9999

\* largest number of footprints of a flagged dataset
MaxFootprints == 4

\* a.where(a > limit): the value where the condition holds, NaN elsewhere;
\* a comparison with NaN does not hold
WhereAbove(a, limit) == IF ~a.nan /\ a.v > limit THEN a ELSE NaNFloat

\* the sum of the values of a function over a set of its arguments
RECURSIVE SumOver(_, _)
SumOver(S, f) ==
    IF S = {} THEN 0
    ELSE LET k == CHOOSE l \in S : TRUE IN f[k] + SumOver(S \ {k}, f)

\* std("y") < 0.1 of a row of floats: NaN is skipped; the standard deviation
\* of no value is NaN, which is not smaller.  With n values v of sum s and
\* sum of squares q the variance is (n q - s^2) / n^2, in (1/TbSteps K)^2
StdBelowTenth(row) ==
    LET valid == {j \in DOMAIN row : ~row[j].nan}
        n == Cardinality(valid)
        s == SumOver(valid, [j \in valid |-> row[j].v])
        q == SumOver(valid, [j \in valid |-> row[j].v * row[j].v])
    IN  n > 0 /\ 100 * (n * q - s * s) < TbSteps * TbSteps * n * n

\* the scan line filter is computed but not applied
flag_gpml1c_no_scan_filter(ds) ==
    LET tb == [x \in DOMAIN ds.tb |-> [y \in DOMAIN ds.tb[x] |->
                [c \in DOMAIN ds.tb[x][y] |-> WhereAbove(ds.tb[x][y][c], 0)]]]
    IN  [ds EXCEPT
            !.lat = [x \in DOMAIN ds.lat |-> [y \in DOMAIN ds.lat[x] |->
                        WhereAbove(ds.lat[x][y], -900)]],
            !.lon = [x \in DOMAIN ds.lon |-> [y \in DOMAIN ds.lon[x] |->
                        WhereAbove(ds.lon[x][y], -900)]],
            !.tb = tb]

flag_gpml1c(ds) ==
    LET tb == [x \in DOMAIN ds.tb |-> [y \in DOMAIN ds.tb[x] |->
                [c \in DOMAIN ds.tb[x][y] |-> WhereAbove(ds.tb[x][y][c], 0)]]]
        fltr == [x \in DOMAIN tb |-> [c \in DOMAIN tb[x][0] |->
                    StdBelowTenth([y \in DOMAIN tb[x] |-> tb[x][y][c]])]]
    IN  [ds EXCEPT
            !.lat = [x \in DOMAIN ds.lat |-> [y \in DOMAIN ds.lat[x] |->
                        WhereAbove(ds.lat[x][y], -900)]],
            !.lon = [x \in DOMAIN ds.lon |-> [y \in DOMAIN ds.lon[x] |->
                        WhereAbove(ds.lon[x][y], -900)]],
            !.tb = [x \in DOMAIN tb |-> [y \in DOMAIN tb[x] |->
                        [c \in DOMAIN tb[x][y] |->
                            IF ~fltr[x][c] THEN tb[x][y][c] ELSE NaNFloat]]]]

\* the footprints of a granule: the quality flag (0 good, positive warning,
\* negative error), the brightness temperatures of two channels and the
\* position.  An error comes with missing brightness temperatures.
Footprints ==
    { [quality |-> 0, tb |-> <<Float(250 * TbSteps), Float(250 * TbSteps)>>, lat |-> Float(88), lon |-> Float(45)],
      [quality |-> 0, tb |-> <<Float(250 * TbSteps + 4), Float(250 * TbSteps)>>, lat |-> Float(88), lon |-> Float(45)],
      [quality |-> 0, tb |-> <<Float(250 * TbSteps + 1), Float(250 * TbSteps + 4)>>, lat |-> Float(88), lon |-> Float(45)],
      [quality |-> 1, tb |-> <<Float(250 * TbSteps + 4), Float(250 * TbSteps + 4)>>, lat |-> Float(88), lon |-> Float(45)],
      [quality |-> -1, tb |-> <<Float(MissingValue * TbSteps), Float(MissingValue * TbSteps)>>, lat |-> Float(88), lon |-> Float(45)],
      [quality |-> 0, tb |-> <<Float(0), Float(250 * TbSteps)>>, lat |-> Float(MissingValue), lon |-> Float(MissingValue)],
      [quality |-> 0, tb |-> <<NaNFloat, Float(250 * TbSteps)>>, lat |-> Float(88), lon |-> Float(45)] }

\* the shapes (scans, footprints per scan) of the flagged datasets
FlagShapes == {s \in (1 .. 2) \X (1 .. MaxFootprints) : s[1] * s[2] <= MaxFootprints}

\* the dataset of a granule with the given footprints
GranuleDataset(fp) ==
    [quality |-> [x \in DOMAIN fp |-> [y \in DOMAIN fp[x] |-> fp[x][y].quality]],
     lat |-> [x \in DOMAIN fp |-> [y \in DOMAIN fp[x] |-> fp[x][y].lat]],
     lon |-> [x \in DOMAIN fp |-> [y \in DOMAIN fp[x] |-> fp[x][y].lon]],
     tb |-> [x \in DOMAIN fp |-> [y \in DOMAIN fp[x] |->
                [c \in Range0(2) |-> fp[x][y].tb[c + 1]]]]]

InitFlagGpm ==
    /\ Elsewhere
    /\ op = "init"
    /\ ret = << >>
    /\ META = NoMeta
    /\ PATH_SAT = NoFiles
    /\ \E s \in FlagShapes : \E fp \in [Range0(s[1]) -> [Range0(s[2]) -> Footprints]] :
            args = [ds |-> GranuleDataset(fp)]

CallFlagGpml1c ==
    /\ op = "init"
    /\ op' = "flag_gpml1c"
    /\ ret' = flag_gpml1c(args.ds)
    /\ UNCHANGED <<args, META, PATH_SAT, CAT, DATA_OBS, handles, pc>>

NextFlagGpm == CallFlagGpml1c

SpecFlagGpm == InitFlagGpm /\ [][NextFlagGpm]_vars

\* C15: after flag_gpml1c, tb is NaN in every channel at every pixel whose
\* quality flag is not 0.
C15_OnlyGoodQuality ==
    op = "flag_gpml1c" =>
        \A x \in DOMAIN ret.tb : \A y \in DOMAIN ret.tb[x] :
            ret.quality[x][y] # 0 => \A c \in DOMAIN ret.tb[x][y] : ret.tb[x][y][c].nan

\* the sum of the squared differences of the values of a row, pair by pair
PairSquares(row) ==
    LET valid == {j \in DOMAIN row : ~row[j].nan}
        pairs == {p \in valid \X valid : p[1] < p[2]}
    IN  SumOver(pairs, [p \in pairs |->
                (row[p[1]].v - row[p[2]].v) * (row[p[1]].v - row[p[2]].v)])

\* the standard deviation of the values of a row is at least 0.1 K: the
\* variance of n values is the sum of their squared differences over n^2
StdAtLeastTenth(row) ==
    LET n == Cardinality({j \in DOMAIN row : ~row[j].nan})
    IN  100 * PairSquares(row) >= TbSteps * TbSteps * n * n

\* C20: after flag_gpml1c every tb that is not NaN is > 0 and belongs to a
\* scan and channel whose across-track standard deviation of tb is at least
\* 0.1 K, and every lat and lon that is not NaN is > -900.
C20_NoMissingNoCorrupt ==
    op = "flag_gpml1c" =>
        /\ \A x \in DOMAIN ret.tb : \A y \in DOMAIN ret.tb[x] : \A c \in DOMAIN ret.tb[x][y] :
            ~ret.tb[x][y][c].nan =>
                /\ ret.tb[x][y][c].v > 0
                /\ StdAtLeastTenth([z \in DOMAIN ret.tb[x] |-> ret.tb[x][z][c]])
        /\ \A x \in DOMAIN ret.lat : \A y \in DOMAIN ret.lat[x] :
            /\ ~ret.lat[x][y].nan => ret.lat[x][y].v > -900
            /\ ~ret.lon[x][y].nan => ret.lon[x][y].v > -900

\* a scan of four footprints: the missing value and the zero of channel 0
\* became NaN and the other two values were kept, the identical values of
\* channel 1 were set to NaN, and the missing position became NaN
C20_Witness ==
    /\ op = "flag_gpml1c"
    /\ DOMAIN ret.tb = {0}
    /\ DOMAIN ret.tb[0] = 0 .. 3
    /\ args.ds.tb[0][0][0].v = MissingValue * TbSteps
    /\ args.ds.lat[0][3].v = MissingValue
    /\ ret.tb[0][0][0].nan /\ ret.tb[0][3][0].nan
    /\ ret.tb[0][1][0] = Float(250 * TbSteps) /\ ret.tb[0][2][0] = Float(250 * TbSteps + 4)
    /\ \A y \in 1 .. 3 : args.ds.tb[0][y][1] = Float(250 * TbSteps) /\ ret.tb[0][y][1].nan
    /\ ret.lat[0][3].nan /\ ret.lon[0][3].nan

(* ---------------------------- flight segments ------------------------- *)
\* A flight of META is a record with its segments; a segment is a record
\* with start, end and kinds, and where it has them a segment_id and parts,
\* which are segments themselves.  Times are counted in samples.

\* largest number of segments of a modelled flight
MaxSegments == 2

\* the flight the segment functions are called for
SegFlight == <<"HALO-AC3", "P5", "RF02">>

\* a segment id "<flight_id>_<name>": the flight id and the rank of the
\* name in the order of strings
SegmentId(flight_id, rank) == <<flight_id[1], flight_id[2], flight_id[3], rank>>

\* "_".join(segment_id.split("_")[:3])
FlightOf(segment_id) == <<segment_id[1], segment_id[2], segment_id[3]>>

\* the forms of the segments of a modelled flight
SegmentForms == {"level", "ascent", "descent", "pattern", "legs", "unnamed"}

\* the k-th segment (k = 1, 2, ...) of a flight of n segments in the given
\* form.  The segments follow each other; with a gap a segment ends a
\* sample before the next starts, otherwise at the start of the next.  The
\* names are not in the order of time.
Segment(form, k, n, gap) ==
    LET start == 3 * (k - 1)
        end == IF gap THEN start + 2 ELSE start + 3
        id == SegmentId(SegFlight, 10 * (n + 1 - k))
        Part(rank, s, e, kinds) ==
            [segment_id |-> SegmentId(SegFlight, 10 * (n + 1 - k) + rank),
             start |-> s, end |-> e, kinds |-> kinds]
    IN  CASE form = "level" ->
                [segment_id |-> id, start |-> start, end |-> end, kinds |-> <<"high_level">>]
          [] form = "ascent" ->
                [segment_id |-> id, start |-> start, end |-> end,
                 kinds |-> <<"major_ascent", "ascent">>]
          [] form = "descent" ->
                [segment_id |-> id, start |-> start, end |-> end,
                 kinds |-> <<"low_level", "small_descent">>]
          [] form = "pattern" ->
                [segment_id |-> id, start |-> start, end |-> end,
                 kinds |-> <<"sawtooth_pattern">>,
                 parts |-> << Part(2, start, start + 1, <<"small_ascent">>),
                              Part(1, start + 1, end, <<"short_turn">>) >>]
          [] form = "legs" ->
                [segment_id |-> id, start |-> start, end |-> end,
                 kinds |-> <<"high_level">>,
                 parts |-> << Part(1, start, start + 1, <<"short_turn">>),
                              Part(2, start + 1, end, <<"small_descent">>) >>]
          [] form = "unnamed" ->
                [start |-> start, end |-> end, kinds |-> <<"short_turn">>]

\* the catalogue with the one flight of the given segments
SegmentCatalogue(forms, gap) ==
    << << SegFlight[1], << << SegFlight[2], <<
        << SegFlight,
           [date |-> 2,
            segments |-> [k \in DOMAIN forms |-> Segment(forms[k], k, Len(forms), gap)]] >>
    >> >> >> >> >>

\* the parts of the segments that have parts and the segments without parts
RECURSIVE PlainLoop(_)
PlainLoop(segments) ==
    IF segments = << >> THEN << >>
    ELSE (IF "parts" \in DOMAIN Head(segments) THEN Head(segments).parts
          ELSE <<Head(segments)>>) \o PlainLoop(Tail(segments))

segments_plain(m, flight_id) ==
    LET flight == meta(m, flight_id)
    IN  IF IsError(flight) THEN flight ELSE [list |-> PlainLoop(flight.segments)]

\* s[segment_id] = segment for the parts of the segments with parts and for
\* the segments without parts, where they have a segment_id; of two with the
\* same id the later stays
segments_dict(m, flight_id) ==
    LET flight == meta(m, flight_id)
        all == IF IsError(flight) THEN << >> ELSE PlainLoop(flight.segments)
        ids == {all[k].segment_id : k \in {l \in DOMAIN all : "segment_id" \in DOMAIN all[l]}}
    IN  IF IsError(flight) THEN flight
        ELSE [dict |-> [id \in ids |->
                all[CHOOSE k \in DOMAIN all :
                    /\ "segment_id" \in DOMAIN all[k] /\ all[k].segment_id = id
                    /\ \A l \in DOMAIN all :
                        ("segment_id" \in DOMAIN all[l] /\ all[l].segment_id = id) => l <= k]]]

\* segments = segments_dict(flight_id); segment = segments[segment_id]
SegmentOf(m, segment_id) ==
    LET segments == segments_dict(m, FlightOf(segment_id))
    IN  IF IsError(segments) THEN segments
        ELSE IF segment_id \notin DOMAIN segments.dict THEN [error |-> "KeyError"]
        ELSE segments.dict[segment_id]

segment_slice(m, segment_id) ==
    LET segment == SegmentOf(m, segment_id)
    IN  IF IsError(segment) THEN segment
        ELSE [slice |-> [start |-> segment.start, stop |-> segment.end]]

segment_times(m, segment_id) ==
    LET segment == SegmentOf(m, segment_id)
    IN  IF IsError(segment) THEN segment
        ELSE [times |-> <<segment.start, segment.end>>]


\* np.any(np.isin(s["kinds"], segment_names))
AnyKindIn(s, segment_names) == \E k \in DOMAIN s.kinds : s.kinds[k] \in segment_names

\* ds.sel(time=slice(start, end)): the samples from start to end, both
\* included
SelTime(ds, start, end) == SelectSeq(ds, LAMBDA time : start <= time /\ time <= end)

\* the loop of remove_segments: the selections are put one after the other
RECURSIVE ConcatTime(_, _)
ConcatTime(ds, s_flt) ==
    IF s_flt = << >> THEN << >>
    ELSE SelTime(ds, Head(s_flt).start, Head(s_flt).end) \o ConcatTime(ds, Tail(s_flt))

remove_segments(m, ds, flight_id, segment_names) ==
    LET plain == segments_plain(m, flight_id)
        s_flt == SelectSeq(plain.list, LAMBDA s : ~AnyKindIn(s, segment_names))
    IN  IF IsError(plain) THEN plain
        ELSE IF s_flt = << >> THEN [none |-> TRUE]
        ELSE [time |-> ConcatTime(ds, s_flt)]

\* the kinds of profiles
ProfileKinds ==
    {"major_ascent", "major_descent", "small_ascent", "small_descent", "medium_ascent",
     "medium_descent", "large_ascent", "large_descent", "sawtooth_pattern",
     "racetrack_pattern", "stairstep_pattern", "ascent", "descent"}

\* for kind in part["kinds"]: if kind in segment_kinds: segments.append(part)
RECURSIVE PartKindLoop(_, _)
PartKindLoop(part, k) ==
    IF k > Len(part.kinds) THEN << >>
    ELSE (IF part.kinds[k] \in ProfileKinds THEN <<part>> ELSE << >>)
         \o PartKindLoop(part, k + 1)

\* for part in parts
RECURSIVE PartLoop(_)
PartLoop(parts) ==
    IF parts = << >> THEN << >> ELSE PartKindLoop(Head(parts), 1) \o PartLoop(Tail(parts))

\* for kind in segment["kinds"]: if kind in segment_kinds: the parts of the
\* segment, or the segment where it has none, are appended
RECURSIVE KindLoop(_, _)
KindLoop(segment, k) ==
    IF k > Len(segment.kinds) THEN << >>
    ELSE (IF segment.kinds[k] \in ProfileKinds
          THEN (IF "parts" \in DOMAIN segment /\ segment.parts # << >>
                THEN PartLoop(segment.parts) ELSE <<segment>>)
          ELSE << >>)
         \o KindLoop(segment, k + 1)

\* for segment in flight["segments"]
RECURSIVE SegmentLoop(_)
SegmentLoop(segments) ==
    IF segments = << >> THEN << >>
    ELSE KindLoop(Head(segments), 1) \o SegmentLoop(Tail(segments))

\* the sequence without its k-th element
Without(list, k) == [l \in 1 .. (Len(list) - 1) |-> IF l < k THEN list[l] ELSE list[l + 1]]

\* segments.sort(key=segment_id): ascending, equal keys in their order
RECURSIVE SortById(_)
SortById(list) ==
    IF list = << >> THEN << >>
    ELSE LET k == CHOOSE l \in DOMAIN list :
                    /\ \A n \in DOMAIN list : list[l].segment_id[4] <= list[n].segment_id[4]
                    /\ \A n \in 1 .. (l - 1) : list[n].segment_id[4] # list[l].segment_id[4]
         IN  <<list[k]>> \o SortById(Without(list, k))

profiles(m, flight_id) ==
    LET flight == meta(m, flight_id)
        segments == SegmentLoop(flight.segments)
    IN  IF IsError(flight) THEN flight
        ELSE IF Len(segments) > 1 /\ \E k \in DOMAIN segments : "segment_id" \notin DOMAIN segments[k]
        THEN [error |-> "TypeError"]
        ELSE [list |-> SortById(segments)]

\* the flights of one to n segments
SegmentFlights(n) == UNION {[1 .. l -> SegmentForms] : l \in 1 .. n}

\* the ids of the segments and of the parts of a flight, and an id the
\* flight does not have
SegmentIds(segments) ==
    UNION { (IF "segment_id" \in DOMAIN segments[k] THEN {segments[k].segment_id} ELSE {})
            \cup (IF "parts" \in DOMAIN segments[k]
                  THEN {segments[k].parts[l].segment_id : l \in DOMAIN segments[k].parts}
                  ELSE {}) : k \in DOMAIN segments }

\* the dataset of a call: a sample at every time of the flight and one
\* before and one after it
SampleTimes(m) ==
    LET segments == meta(m, SegFlight).segments
    IN  [k \in 1 .. (3 * Len(segments) + 3) |-> k - 2]

\* the kinds a call removes
RemovedKinds == {{"short_turn"}, {"high_level"}, {"sawtooth_pattern"},
                 {"small_descent", "major_ascent"}, {}}

InitSegments ==
    /\ Elsewhere
    /\ op = "init"
    /\ args = << >>
    /\ ret = << >>
    /\ PATH_SAT = NoFiles
    /\ \E forms \in SegmentFlights(MaxSegments), gap \in BOOLEAN :
            META = SegmentCatalogue(forms, gap)

CallSegmentsDict ==
    /\ op = "init"
    /\ op' = "segments_dict"
    /\ args' = [flight_id |-> SegFlight]
    /\ ret' = segments_dict(META, SegFlight)
    /\ UNCHANGED <<META, PATH_SAT, CAT, DATA_OBS, handles, pc>>

CallSegmentSlice ==
    /\ op = "init"
    /\ \E segment_id \in SegmentIds(meta(META, SegFlight).segments)
                            \cup {SegmentId(SegFlight, 0)} :
        /\ op' = "segment_slice"
        /\ args' = [segment_id |-> segment_id]
        /\ ret' = segment_slice(META, segment_id)
        /\ UNCHANGED <<META, PATH_SAT, CAT, DATA_OBS, handles, pc>>

CallSegmentTimes ==
    /\ op = "init"
    /\ \E segment_id \in SegmentIds(meta(META, SegFlight).segments)
                            \cup {SegmentId(SegFlight, 0)} :
        /\ op' = "segment_times"
        /\ args' = [segment_id |-> segment_id]
        /\ ret' = segment_times(META, segment_id)
        /\ UNCHANGED <<META, PATH_SAT, CAT, DATA_OBS, handles, pc>>

CallRemoveSegments ==
    /\ op = "init"
    /\ \E segment_names \in RemovedKinds :
        /\ op' = "remove_segments"
        /\ args' = [ds |-> SampleTimes(META), flight_id |-> SegFlight,
                    segment_names |-> segment_names]
        /\ ret' = remove_segments(META, SampleTimes(META), SegFlight, segment_names)
        /\ UNCHANGED <<META, PATH_SAT, CAT, DATA_OBS, handles, pc>>

CallProfiles ==
    /\ op = "init"
    /\ op' = "profiles"
    /\ args' = [flight_id |-> SegFlight]
    /\ ret' = profiles(META, SegFlight)
    /\ UNCHANGED <<META, PATH_SAT, CAT, DATA_OBS, handles, pc>>

NextSegments ==
    \/ CallSegmentsDict \/ CallSegmentSlice \/ CallSegmentTimes
    \/ CallRemoveSegments \/ CallProfiles

SpecSegments == InitSegments /\ [][NextSegments]_vars

\* the segments of the flight and their parts
AllSegments ==
    LET segments == meta(META, SegFlight).segments
    IN  Values(segments)
        \cup UNION { IF "parts" \in DOMAIN segments[k] THEN Values(segments[k].parts) ELSE {} :
                     k \in DOMAIN segments }

\* the record of the segment or part with an id
RecordOf(segment_id) ==
    CHOOSE s \in AllSegments : "segment_id" \in DOMAIN s /\ s.segment_id = segment_id

\* C16: segments_dict maps every segment_id of the flight, of the segments
\* as of their parts, to its record, and segment_slice and segment_times
\* succeed for every such id and return the start and end of its segment.
C16_EverySegmentId ==
    LET ids == SegmentIds(meta(META, SegFlight).segments)
    IN  /\ op = "segments_dict" =>
            /\ ~IsError(ret)
            /\ DOMAIN ret.dict = ids
            /\ \A id \in ids : ret.dict[id] = RecordOf(id)
        /\ (op = "segment_slice" /\ args.segment_id \in ids) =>
            /\ ~IsError(ret)
            /\ ret.slice = [start |-> RecordOf(args.segment_id).start,
                            stop |-> RecordOf(args.segment_id).end]
        /\ (op = "segment_times" /\ args.segment_id \in ids) =>
            /\ ~IsError(ret)
            /\ ret.times = <<RecordOf(args.segment_id).start, RecordOf(args.segment_id).end>>

\* C17: the result of remove_segments has no sample inside the interval
\* [start, end] of a segment or part with a kind in segment_names, and has
\* every sample of ds outside all these intervals.
C17_SegmentsRemoved ==
    op = "remove_segments" =>
        LET removed == {s \in AllSegments : AnyKindIn(s, args.segment_names)}
            Inside(time) == \E s \in removed : s.start <= time /\ time <= s.end
        IN  /\ "time" \in DOMAIN ret
            /\ \A time \in Values(ret.time) : ~Inside(time)
            /\ \A time \in Values(args.ds) : ~Inside(time) => time \in Values(ret.time)

\* the segments without parts and the parts, with a kind of a profile
ProfileSegments ==
    LET segments == meta(META, SegFlight).segments
    IN  {s \in AllSegments : "parts" \notin DOMAIN s /\ AnyKindIn(s, ProfileKinds)}

\* C18: profiles returns the segments, or for segments with parts the
\* parts, with a kind of the list of profile kinds, each exactly once, in
\* ascending order of segment_id, and no other segment.
C18_ProfilesOnce ==
    op = "profiles" =>
        /\ ~IsError(ret)
        /\ Values(ret.list) = ProfileSegments
        /\ \A k, l \in DOMAIN ret.list :
            k < l => ret.list[k].segment_id[4] < ret.list[l].segment_id[4]

(* --------------------------- PAMTRA profile --------------------------- *)
\* largest number of levels of a modelled profile
MaxLevels == 3

\* a.where(a < limit, other) and a.where(a > limit, other): the value
\* where the condition holds, other elsewhere; a comparison with NaN does
\* not hold
WhereBelowElse(a, limit, other) == IF ~a.nan /\ a.v < limit THEN a ELSE Float(other)
WhereAboveElse(a, limit, other) == IF ~a.nan /\ a.v > limit THEN a ELSE Float(other)

\* the lower limit is not applied
filter_relhum_upper_only(ds, rh_var) ==
    [ds EXCEPT ![rh_var] = [k \in DOMAIN ds[rh_var] |-> WhereBelowElse(ds[rh_var][k], 100, 100)]]

\* PamProfile.filter_relhum: self.ds after the call
filter_relhum(ds, rh_var) ==
    LET upper == [ds EXCEPT ![rh_var] =
                    [k \in DOMAIN ds[rh_var] |-> WhereBelowElse(ds[rh_var][k], 100, 100)]]
    IN  [upper EXCEPT ![rh_var] =
            [k \in DOMAIN upper[rh_var] |-> WhereAboveElse(upper[rh_var][k], 0, 0)]]

\* relative humidities in %, and the temperature of a level
RelhumValues == {Float(-5), Float(0), Float(50), Float(100), Float(105), NaNFloat}

InitProfile ==
    /\ Elsewhere
    /\ op = "init"
    /\ ret = << >>
    /\ META = NoMeta
    /\ PATH_SAT = NoFiles
    /\ \E n \in 1 .. MaxLevels : \E r \in [Range0(n) -> RelhumValues] :
            args = [self |-> [ds |-> [r |-> r, t |-> [k \in Range0(n) |-> Float(105)]]]]

CallFilterRelhum ==
    /\ op = "init"
    /\ op' = "filter_relhum"
    /\ args' = [self |-> args.self, rh_var |-> "r"]
    /\ ret' = [self |-> [ds |-> filter_relhum(args.self.ds, "r")]]
    /\ UNCHANGED <<META, PATH_SAT, CAT, DATA_OBS, handles, pc>>

NextProfile == CallFilterRelhum

SpecProfile == InitProfile /\ [][NextProfile]_vars

\* C19: after filter_relhum every relative humidity lies in [0, 100]: a
\* value above 100 has become 100, a value below 0 has become 0, and a value
\* within [0, 100] is unchanged.
C19_RelhumLimited ==
    op = "filter_relhum" =>
        LET before == args.self.ds.r
            after == ret.self.ds.r
        IN  /\ DOMAIN after = DOMAIN before
            /\ \A k \in DOMAIN after :
                /\ ~after[k].nan /\ 0 <= after[k].v /\ after[k].v <= 100
                /\ (~before[k].nan /\ before[k].v > 100) => after[k] = Float(100)
                /\ (~before[k].nan /\ before[k].v < 0) => after[k] = Float(0)
                /\ (~before[k].nan /\ 0 <= before[k].v /\ before[k].v <= 100)
                        => after[k] = before[k]
            /\ ret.self.ds.t = args.self.ds.t

\* a profile with a value above, a value below and a value within the limits
C19_Witness ==
    /\ op = "filter_relhum"
    /\ args.self.ds.r = [k \in 0 .. 2 |-> IF k = 0 THEN Float(105)
                                           ELSE IF k = 1 THEN Float(-5) ELSE Float(50)]
    /\ ret.self.ds.r = [k \in 0 .. 2 |-> IF k = 0 THEN Float(100)
                                          ELSE IF k = 1 THEN Float(0) ELSE Float(50)]

(* -------------------------- footprint index -------------------------- *)
\* C21: with add_index=True the footprint_id of the footprint at scan index
\* x and across-track index y of the granule is x * Ny + y, Ny being the
\* number of footprints per scan of the granule: the id names the same
\* footprint of the file under every region filter, and no two footprints
\* of the result share an id.
C21_FootprintId ==
    (op = "read_gpm_l1c_swath" /\ ~IsError(ret) /\ args.add_index) =>
        LET f == SourceFile(PATH_SAT, ret)
            g == H5Swath(f, GeoSwath(args))
            Ny == Shape2(g.Latitude)[2]
        IN  /\ DOMAIN ret.footprint_id = DOMAIN ret.x
            /\ \A k \in DOMAIN ret.x :
                /\ DOMAIN ret.footprint_id[k] = DOMAIN ret.y
                /\ \A j \in DOMAIN ret.y :
                    /\ ret.footprint_id[k][j] = ret.x[k] * Ny + ret.y[j]
                    /\ ret.quality[k][j] =
                        g.Quality[ret.footprint_id[k][j] \div Ny][ret.footprint_id[k][j] % Ny]
            /\ \A k, l \in DOMAIN ret.x : \A j, n \in DOMAIN ret.y :
                <<k, j>> # <<l, n>> => ret.footprint_id[k][j] # ret.footprint_id[l][n]

\* the second of two scans of two footprints is returned alone: its
\* footprints have the ids 2 and 3
C21_Witness ==
    /\ op = "read_gpm_l1c_swath" /\ ~IsError(ret) /\ args.add_index
    /\ DOMAIN ret.x = {0} /\ ret.x[0] = 1
    /\ DOMAIN ret.y = {0, 1}
    /\ ret.footprint_id[0] = [j \in {0, 1} |-> 2 + j]

(* --------------------------- channel order --------------------------- *)
\* the swath tables of the module docstring: centre frequency and offset
\* from the centre in tenths of a GHz, and polarization, of every channel
\* of the W- and G-band swaths
SwathTable ==
    [MHS |-> (1 :> [frequency |-> 890, pol |-> "V", offset |-> 0]
           @@ 2 :> [frequency |-> 1570, pol |-> "V", offset |-> 0]
           @@ 3 :> [frequency |-> 1830, pol |-> "H", offset |-> 10]
           @@ 4 :> [frequency |-> 1830, pol |-> "H", offset |-> 30]
           @@ 5 :> [frequency |-> 1900, pol |-> "V", offset |-> 0]),
     ATMS |-> (16 :> [frequency |-> 882, pol |-> "V", offset |-> 0]
            @@ 17 :> [frequency |-> 1650, pol |-> "H", offset |-> 0]
            @@ 18 :> [frequency |-> 1830, pol |-> "H", offset |-> 70]
            @@ 19 :> [frequency |-> 1830, pol |-> "H", offset |-> 45]
            @@ 20 :> [frequency |-> 1830, pol |-> "H", offset |-> 30]
            @@ 21 :> [frequency |-> 1830, pol |-> "H", offset |-> 18]
            @@ 22 :> [frequency |-> 1830, pol |-> "H", offset |-> 10]),
     SSMIS |-> (8 :> [frequency |-> 1500, pol |-> "H", offset |-> 0]
             @@ 11 :> [frequency |-> 1830, pol |-> "H", offset |-> 10]
             @@ 10 :> [frequency |-> 1830, pol |-> "H", offset |-> 30]
             @@ 9 :> [frequency |-> 1830, pol |-> "H", offset |-> 70]
             @@ 17 :> [frequency |-> 910, pol |-> "V", offset |-> 0]
             @@ 18 :> [frequency |-> 910, pol |-> "H", offset |-> 0]),
     AMSR2 |-> (13 :> [frequency |-> 890, pol |-> "V", offset |-> 0]
             @@ 14 :> [frequency |-> 890, pol |-> "H", offset |-> 0])]

\* channel a may stand right before channel b: frequency ascending, at
\* equal frequency the offset ascending, at equal offset V before H
InOrder(a, b) ==
    \/ a.frequency < b.frequency
    \/ a.frequency = b.frequency /\ a.offset < b.offset
    \/ a.frequency = b.frequency /\ a.offset = b.offset
        /\ a.pol = "V" /\ b.pol = "H"

Sorted(instrument, channels) ==
    \A k \in DOMAIN channels : (k + 1) \in DOMAIN channels =>
        InOrder(SwathTable[instrument][channels[k]],
                SwathTable[instrument][channels[k + 1]])

\* C22: the channels of CHANNELS_SORTED[instrument], which read_gpm_l1c
\* gives its result, are ordered by ascending centre frequency, vertical
\* before horizontal polarization at equal frequency, and the 183 GHz
\* channels from the innermost to the outermost offset, the frequencies
\* being those of the swath tables of the module docstring.
C22_ChannelOrder ==
    (op = "read_gpm_l1c" /\ ~IsError(ret)) =>
        /\ ret.channel = NpArray(CHANNELS_SORTED[args.instrument])
        /\ Sorted(args.instrument, ret.channel)

(* ------------------------ all flights of HALO ------------------------ *)
\* The per-flight datasets are reduced to their time coordinate: the
\* samples of a flight are named by the flight and their position.
UnifiedFile(name, date) == <<"hamp/unified_v2.7", name, date>>

FlightSamples(flight_id) == << <<flight_id, 0>>, <<flight_id, 1>> >>

read_hamp(m, obs, flight_id) ==
    LET date == day_of_flight(m, flight_id)
    IN  IF IsError(date) THEN date
        ELSE LET ds == open_dataset(obs, UnifiedFile(flight_id[3], date))
             IN  IF IsError(ds) THEN ds ELSE [time |-> FlightSamples(flight_id)]

read_mira(cat, flight_id) ==
    IF flight_id \notin cat THEN [error |-> "KeyError"]
    ELSE [time |-> FlightSamples(flight_id)]

\* list.remove(v): ValueError when v is not in the list
ListRemove(list, v) ==
    IF v \in Values(list) THEN RemoveFirst(list, v) ELSE [error |-> "ValueError"]

\* the loop over the flights, which ends at the first read that fails, and
\* xr.concat(lst_ds, dim="time"), which needs at least one dataset
RECURSIVE ConcatFlights(_, _)
ConcatFlights(lst_ds, time) ==
    IF lst_ds = << >> THEN [time |-> time]
    ELSE IF IsError(Head(lst_ds)) THEN Head(lst_ds)
    ELSE ConcatFlights(Tail(lst_ds), time \o Head(lst_ds).time)

XrConcat(lst_ds) ==
    LET ds == ConcatFlights(lst_ds, << >>)
    IN  IF ~IsError(ds) /\ lst_ds = << >> THEN [error |-> "ValueError"] ELSE ds

read_hamp_all(m, obs) ==
    LET flight_ids == ListRemove(get_all_flights(m, [str |-> "HALO-AC3"], [str |-> "HALO"]),
                                 <<"HALO-AC3", "HALO", "RF00">>)
    IN  IF IsError(flight_ids) THEN flight_ids
        ELSE XrConcat([k \in DOMAIN flight_ids |-> read_hamp(m, obs, flight_ids[k])])

read_all(m, cat) ==
    LET flight_ids == ListRemove(get_all_flights(m, [str |-> "HALO-AC3"], [str |-> "HALO"]),
                                 <<"HALO-AC3", "HALO", "RF00">>)
    IN  IF IsError(flight_ids) THEN flight_ids
        ELSE XrConcat([k \in DOMAIN flight_ids |-> read_mira(cat, flight_ids[k])])

\* the flights of HALO a catalogue may hold
HaloFlights == {<<"HALO-AC3", "HALO", FlightName(n)>> : n \in 0 .. 2}

InitAll ==
    /\ op = "init"
    /\ args = << >>
    /\ ret = << >>
    /\ PATH_SAT = NoFiles
    /\ handles = {}
    /\ pc = [at |-> "idle"]
    /\ \E n1 \in 0 .. MaxFlights, n2 \in 0 .. MaxFlights, halo \in SUBSET (0 .. 2) :
            META = Catalogue(n1, n2, halo)
    /\ CAT \in SUBSET HaloFlights
    /\ \E S \in SUBSET (0 .. 2) : DATA_OBS = {UnifiedFile(FlightName(n), n) : n \in S}

CallReadHampAll ==
    /\ op = "init"
    /\ op' = "read_hamp_all"
    /\ args' = << >>
    /\ ret' = read_hamp_all(META, DATA_OBS)
    /\ UNCHANGED <<META, PATH_SAT, CAT, DATA_OBS, handles, pc>>

CallReadAll ==
    /\ op = "init"
    /\ op' = "read_all"
    /\ args' = << >>
    /\ ret' = read_all(META, CAT)
    /\ UNCHANGED <<META, PATH_SAT, CAT, DATA_OBS, handles, pc>>

NextAll == CallReadHampAll \/ CallReadAll

SpecAll == InitAll /\ [][NextAll]_vars

\* the flights the two functions are to read, and the reads of one of them
FlightsToRead ==
    LET flight_ids == get_all_flights(META, [str |-> "HALO-AC3"], [str |-> "HALO"])
    IN  SelectSeq(flight_ids, LAMBDA f : f # <<"HALO-AC3", "HALO", "RF00">>)

ReadsOf(name) ==
    [k \in DOMAIN FlightsToRead |->
        IF name = "read_hamp_all" THEN read_hamp(META, DATA_OBS, FlightsToRead[k])
        ELSE read_mira(CAT, FlightsToRead[k])]

RECURSIVE TimesOf(_)
TimesOf(lst_ds) ==
    IF lst_ds = << >> THEN << >> ELSE Head(lst_ds).time \o TimesOf(Tail(lst_ds))

\* C23: read_hamp_all and mira.read_all return the per-flight datasets of
\* the flights of get_all_flights("HALO-AC3", "HALO") other than RF00,
\* concatenated along time in that order, and end without error whenever
\* the read of each of these flights succeeds.
C23_AllFlightsRead ==
    (op \in {"read_hamp_all", "read_all"}
        /\ \A k \in DOMAIN ReadsOf(op) : ~IsError(ReadsOf(op)[k])) =>
            /\ ~IsError(ret)
            /\ ret.time = TimesOf(ReadsOf(op))

(* ------------------------- MiRAC-A brightness ------------------------- *)
\* C24: read_mirac_a_tb returns the MiRAC-A dataset of the flight without
\* the variables Ze, Ze_flag, Ze_unfiltered, height, lon, lat and alt and
\* with a last dimension channel of length 1 whose value is 1; it returns
\* None only when read_mirac_a returns None for the flight.
C24_TbOnly ==
    op = "read_mirac_a_tb" =>
        /\ (~IsError(ret) /\ "none" \notin DOMAIN ret) =>
            /\ DataVars(ret) \cap {"Ze", "Ze_flag", "Ze_unfiltered",
                                   "height", "lon", "lat", "alt"} = {}
            /\ ret.channel = <<1>>
            /\ ret.dims[Len(ret.dims)] = "channel"
        /\ "none" \in DOMAIN ret =>
            \E offline \in BOOLEAN, reachable \in BOOLEAN :
                "none" \in DOMAIN read_mirac_a(META, CAT, DATA_OBS, args.flight_id,
                                               offline, reachable, << >>)

(* --------------------------- PAMTRA surface --------------------------- *)
\* The grid cells of a profile are numbered from 1; the area fractions
\* sfc_slf and sfc_sif are given in percent.
MaxCells == 2

\* xr.where(cond, x, a) with a scalar x
XrWhere(cond, x, a) == [k \in DOMAIN a |-> IF cond[k] THEN x ELSE a[k]]

get_surface_mask(ds, name) ==
    IF name = "ocean"
    THEN [k \in DOMAIN ds.sfc_slf |-> ds.sfc_slf[k] < 50 /\ ds.sfc_sif[k] < 50]
    ELSE IF name = "land"
    THEN [k \in DOMAIN ds.sfc_slf |-> ds.sfc_slf[k] > 50]
    ELSE IF name = "sea_ice"
    THEN [k \in DOMAIN ds.sfc_slf |-> ds.sfc_slf[k] < 50 /\ ds.sfc_sif[k] > 50]
    ELSE [none |-> TRUE]

set_sfc_type(ds, kind) ==
    IF kind \notin {"natural", "idealized"} THEN [error |-> "AssertionError"]
    ELSE LET zero == [k \in DOMAIN ds.sfc_slf |-> 0]
         IN  IF kind = "natural"
             THEN LET land == XrWhere(get_surface_mask(ds, "land"), 1, zero)
                      ix == [k \in DOMAIN zero |->
                                get_surface_mask(ds, "land")[k]
                                \/ get_surface_mask(ds, "sea_ice")[k]]
                  IN  [sfc_type |-> XrWhere(ix, 1, land)] @@ ds
             ELSE [sfc_type |-> [k \in DOMAIN zero |-> -9999]] @@ ds

\* the surface models and their PAMTRA numbers
models == [TESSEM2 |-> 0, FASTEM |-> 1, TELSEM2 |-> 0, SSMI |-> 1]

set_sfc_model(ds, ocean, land, sea_ice) ==
    LET zeros == [k \in DOMAIN ds.sfc_type |-> 0]
        m1 == XrWhere(get_surface_mask(ds, "ocean"), models[ocean], zeros)
        m2 == XrWhere(get_surface_mask(ds, "land"), models[land], m1)
    IN  [sfc_model |-> XrWhere(get_surface_mask(ds, "sea_ice"), models[sea_ice], m2)] @@ ds

set_sfc_refl(ds, ocean, land, sea_ice) ==
    LET full == [k \in DOMAIN ds.sfc_type |-> "F"]
        r1 == XrWhere(get_surface_mask(ds, "ocean"), ocean, full)
        r2 == XrWhere(get_surface_mask(ds, "land"), land, r1)
    IN  [sfc_refl |-> XrWhere(get_surface_mask(ds, "sea_ice"), sea_ice, r2)] @@ ds

\* PamtraSurface(ds, kind, ...): the dataset of the object, or the error
PamtraSurface(ds, kind, kw) ==
    LET typed == set_sfc_type(ds, kind)
    IN  IF IsError(typed) THEN typed
        ELSE [ds |-> set_sfc_refl(
                        set_sfc_model(typed, kw.ocean_model, kw.land_model, kw.sea_ice_model),
                        kw.ocean_refl, kw.land_refl, kw.sea_ice_refl)]

\* area fractions in percent, and the profiles of up to MaxCells cells
Fractions == {0, 50, 100}

SurfaceDatasets ==
    UNION {[sfc_slf : [1 .. n -> Fractions], sfc_sif : [1 .. n -> Fractions]] : n \in 1 .. MaxCells}

SurfaceKeywords ==
    [ocean_model : {"TESSEM2", "FASTEM"}, land_model : {"TELSEM2", "SSMI"},
     sea_ice_model : {"TELSEM2", "FASTEM"},
     ocean_refl : {"F", "L"}, land_refl : {"F", "L"}, sea_ice_refl : {"F", "L"}]

InitSurface ==
    /\ Elsewhere
    /\ op = "init"
    /\ args = << >>
    /\ ret = << >>
    /\ META = NoMeta
    /\ PATH_SAT = NoFiles

CallPamtraSurface ==
    /\ op = "init"
    /\ \E ds \in SurfaceDatasets, kind \in {"natural", "idealized", "fixed"},
          kw \in SurfaceKeywords :
        /\ op' = "PamtraSurface"
        /\ args' = [ds |-> ds, kind |-> kind] @@ kw
        /\ ret' = PamtraSurface(ds, kind, kw)
        /\ UNCHANGED <<META, PATH_SAT, CAT, DATA_OBS, handles, pc>>

NextSurface == CallPamtraSurface

SpecSurface == InitSurface /\ [][NextSurface]_vars

\* the classes of a cell by the 50 % thresholds on the two area fractions
ClassesOf(slf, sif) ==
    (IF slf < 50 /\ sif < 50 THEN {"ocean"} ELSE {})
    \cup (IF slf > 50 THEN {"land"} ELSE {})
    \cup (IF slf < 50 /\ sif > 50 THEN {"sea_ice"} ELSE {})

\* C25: with kind="natural" every grid cell belongs to exactly one of
\* ocean, land and sea ice by the 50 % thresholds on sfc_slf and sfc_sif;
\* sfc_type is 1 exactly for the land and sea-ice cells and 0 for the ocean
\* cells, and sfc_model and sfc_refl of every cell are the values
\* configured for its class, so that "L" for all three classes gives "L"
\* in every cell.  With kind="idealized" sfc_type is -9999 in every cell;
\* any other kind is rejected.
C25_SurfaceClasses ==
    op = "PamtraSurface" =>
        /\ args.kind \notin {"natural", "idealized"} <=> IsError(ret)
        /\ args.kind = "idealized" =>
            \A k \in DOMAIN args.ds.sfc_slf : ret.ds.sfc_type[k] = -9999
        /\ args.kind = "natural" =>
            \A k \in DOMAIN args.ds.sfc_slf :
                LET classes == ClassesOf(args.ds.sfc_slf[k], args.ds.sfc_sif[k])
                IN  /\ Cardinality(classes) = 1
                    /\ ret.ds.sfc_type[k] = 1 <=> classes \cap {"land", "sea_ice"} # {}
                    /\ ret.ds.sfc_type[k] = 0 <=> "ocean" \in classes
                    /\ \A c \in classes :
                        /\ ret.ds.sfc_model[k] = models[args[c \o "_model"]]
                        /\ ret.ds.sfc_refl[k] = args[c \o "_refl"]
                    /\ (args.ocean_refl = "L" /\ args.land_refl = "L"
                            /\ args.sea_ice_refl = "L") => ret.ds.sfc_refl[k] = "L"

(* ---------------------------- PAMTRA import --------------------------- *)
\* PamProfile(ds, grid_dimensions, varnames, ...) for one column: grid_x
\* and grid_y are None and grid_z is the dimension of the levels.  A
\* variable on the levels is an array over 0 .. n-1, a surface variable the
\* one-element list of the column; the nesting of the values by grid_x and
\* grid_y, both of length 1, is left out.
PAM_VARS ==
    <<"lon", "lat", "timestamp", "wind10u", "wind10v", "sfc_slf", "sfc_sif",
      "groundtemp", "press", "hgt", "relhum", "temp", "obs_height", "hydro_q",
      "sfc_type", "sfc_model", "sfc_refl">>

\* the placeholder hydrometeor of to_pamtra
EmptyHydrometeor == <<"ice", "mono_cosmo_ice", "mie-sphere", "heymsfield10_particles">>

\* the grid dimensions: a coordinate 0 .. len-1 for a dimension of the
\* dataset, of length 1 for None
grid_coords(ds, grid_dimensions) ==
    [pam_dim \in DOMAIN grid_dimensions |->
        IF grid_dimensions[pam_dim] = "None" THEN [k \in {0} |-> 0]
        ELSE [k \in DOMAIN ds[grid_dimensions[pam_dim]] |-> k]] @@ ds

\* seconds since 1970-01-01 as integer
convert_time(ds) == [ds EXCEPT !.time = ds.time.datetime64 - 0]

add_obs_height(ds, self) ==
    IF IsNone(self, "obs_height") THEN ds
    ELSE [outlevel |-> [k \in DOMAIN self.obs_height |-> k],
          obs_height |-> self.obs_height] @@ ds

\* ds.rename({v: k for k, v in varnames.items() if v is not None})
rename(ds, varnames) ==
    LET NewName(v) == IF \E k \in DOMAIN varnames : varnames[k] = v
                      THEN CHOOSE k \in DOMAIN varnames : varnames[k] = v
                      ELSE v
    IN  [n \in {NewName(v) : v \in DOMAIN ds} |->
            ds[CHOOSE v \in DOMAIN ds : NewName(v) = n]]

prepare_surface(ds, self) == PamtraSurface(ds, self.kind, self)

\* self.ds["hydro_q"] = xr.zeros_like(self.ds["hydro_q"])
set_hydrometeors_to_zero(ds) ==
    IF "hydro_q" \notin DOMAIN ds THEN [error |-> "KeyError", key |-> "hydro_q"]
    ELSE [ds EXCEPT !.hydro_q = [k \in DOMAIN ds.hydro_q |-> 0]]

\* self.ds after transform_ds, or the error it ends in
transform_ds(self) ==
    LET renamed == rename(
                    add_obs_height(
                        convert_time(
                            filter_relhum(grid_coords(self.ds, self.grid_dimensions),
                                          self.varnames.relhum)),
                        self),
                    self.varnames)
        pam_pro == prepare_surface(renamed, self)
    IN  IF IsError(pam_pro) THEN pam_pro
        ELSE IF self.remove_hydrometeors THEN set_hydrometeors_to_zero(pam_pro.ds)
        ELSE pam_pro.ds

\* self.pam after to_pamtra: the hydrometeors of the descriptor and the
\* variables of the created profile
to_pamtra(ds, df) ==
    LET pam_vars == IF "hydro_q" \notin DOMAIN ds
                    THEN SelectSeq(PAM_VARS, LAMBDA v : v # "hydro_q") ELSE PAM_VARS
        hydrometeors == IF "hydro_q" \notin DOMAIN ds THEN Append(df, EmptyHydrometeor)
                        ELSE df
    IN  IF \E k \in DOMAIN pam_vars : pam_vars[k] \notin DOMAIN ds
        THEN [error |-> "KeyError"]
        ELSE [pam |-> [df |-> hydrometeors,
                       p |-> [v \in Values(pam_vars) |-> ds[v]]]]

\* PamProfile.__init__: the object with its pam, or the error
PamProfile(self) ==
    LET df == IF IsNone(self, "descriptor_file") THEN << >> ELSE self.descriptor_file
        ds == transform_ds(self)
    IN  IF IsError(ds) THEN ds ELSE to_pamtra(ds, df)

\* the columns of up to MaxLevels levels, with and without hydrometeors
Columns ==
    UNION {
        LET Base(rh) ==
                [lon |-> <<0>>, lat |-> <<0>>, time |-> [datetime64 |-> 0],
                 wind10u |-> <<0>>, wind10v |-> <<0>>, groundtemp |-> <<0>>,
                 press |-> [k \in Range0(n) |-> 0], alt |-> [k \in Range0(n) |-> k],
                 temp |-> [k \in Range0(n) |-> 0], rh |-> rh]
        IN  {Base(rh) @@ s : rh \in [Range0(n) -> {Float(50), Float(105)}],
                             s \in [sfc_slf : [1 .. 1 -> Fractions],
                                    sfc_sif : [1 .. 1 -> Fractions]]}
            \cup {Base(rh) @@ s @@ [qc |-> q] :
                             rh \in [Range0(n) -> {Float(50), Float(105)}],
                             s \in [sfc_slf : [1 .. 1 -> Fractions],
                                    sfc_sif : [1 .. 1 -> Fractions]],
                             q \in [Range0(n) -> {0, 3}]}
        : n \in 1 .. MaxLevels}

\* the names of the variables in the dataset; None is an absent name
Varnames(ds) ==
    [lon |-> "lon", lat |-> "lat", timestamp |-> "time", wind10u |-> "wind10u",
     wind10v |-> "wind10v", sfc_slf |-> "sfc_slf", sfc_sif |-> "sfc_sif",
     groundtemp |-> "groundtemp", press |-> "press", hgt |-> "alt",
     relhum |-> "rh", temp |-> "temp"]
    @@ (IF "qc" \in DOMAIN ds THEN [hydro_q |-> "qc"] ELSE << >>)

InitPamProfile ==
    /\ Elsewhere
    /\ op = "init"
    /\ args = << >>
    /\ ret = << >>
    /\ META = NoMeta
    /\ PATH_SAT = NoFiles

CallPamProfile ==
    /\ op = "init"
    /\ \E ds \in Columns, remove_hydrometeors \in BOOLEAN, kind \in {"natural", "idealized"},
          descriptor \in {<< >>, [descriptor_file |-> << <<"cwc_q">> >>]} :
        /\ op' = "PamProfile"
        /\ args' = [ds |-> ds,
                    grid_dimensions |-> [grid_x |-> "None", grid_y |-> "None", grid_z |-> "alt"],
                    varnames |-> Varnames(ds),
                    obs_height |-> <<0, 833000>>,
                    remove_hydrometeors |-> remove_hydrometeors,
                    kind |-> kind,
                    ocean_model |-> "TESSEM2", ocean_refl |-> "L",
                    land_model |-> "TELSEM2", land_refl |-> "L",
                    sea_ice_model |-> "TELSEM2", sea_ice_refl |-> "L"] @@ descriptor
        /\ ret' = PamProfile(args')
        /\ UNCHANGED <<META, PATH_SAT, CAT, DATA_OBS, handles, pc>>

NextPamProfile == CallPamProfile

SpecPamProfile == InitPamProfile /\ [][NextPamProfile]_vars

\* C26: PamProfile of a dataset without hydrometeor variable
\* (varnames["hydro_q"] is None) is constructed with remove_hydrometeors
\* True as well as False: hydro_q is not in the created profile and exactly
\* one placeholder hydrometeor is registered; with hydro_q in the dataset
\* and remove_hydrometeors=True every hydro_q value of the profile is 0.
C26_NoHydrometeors ==
    op = "PamProfile" =>
        /\ IsNone(args.varnames, "hydro_q") =>
            /\ ~IsError(ret)
            /\ "hydro_q" \notin DOMAIN ret.pam.p
            /\ Cardinality({k \in DOMAIN ret.pam.df : ret.pam.df[k] = EmptyHydrometeor}) = 1
        /\ (~IsNone(args.varnames, "hydro_q") /\ args.remove_hydrometeors) =>
            /\ ~IsError(ret)
            /\ \A k \in DOMAIN ret.pam.p.hydro_q : ret.pam.p.hydro_q[k] = 0
====
